---- MODULE Spec2Model ----
(***************************************************************************)
(* Photonicat PMU serial protocol engine (drivers/mfd/photonicat-pmu.c):   *)
(* frame encoding, incremental reassembly and validation of received      *)
(* bytes, correlation of replies with the pending request, the            *)
(* retry/timeout loop of pcat_pmu_execute, and notification dispatch.     *)
(* Multi-byte fields are laid out little-endian (the packed structs are   *)
(* written to the wire in native byte order of the arm64 target).         *)
(***************************************************************************)
EXTENDS Integers, Sequences, FiniteSets, TLC

(***************************************************************************)
(* Program constants                                                       *)
(***************************************************************************)
PCAT_ADDR_CPU == 1
PCAT_ADDR_PMU == 129
PCAT_ADDR_CPU_ALL == 128
PCAT_ADDR_PMU_ALL == 254
PCAT_ADDR_ALL == 255
PCAT_MAGIC_HEAD == 165
PCAT_MAGIC_END == 90

U16_MAX == 65535
U16_MOD == 65536

\* sizeof(struct pcat_data_head), sizeof(struct pcat_data_foot), both packed
HEAD_SIZE == 9
FOOT_SIZE == 4
\* sizeof(pmu->buffer)
BUFFER_SIZE == 8192
\* retries < 3 in pcat_pmu_execute
MAX_RETRIES == 3

EAGAIN == 11
EBADMSG == 74
ETIMEDOUT == 110
EIO == 5

NOTIFY_DONE == 0
NOTIFY_OK == 1

PCAT_CMD_HEARTBEAT == 1
PCAT_CMD_PMU_HW_VERSION_GET == 3
PCAT_CMD_STATUS_REPORT == 7
PCAT_CMD_DATE_TIME_SYNC == 9
PCAT_CMD_PMU_REQUEST_SHUTDOWN == 13
PCAT_CMD_CHARGER_ON_AUTO_START == 21

(***************************************************************************)
(* Bounds of the model                                                     *)
(***************************************************************************)
\* longest body of the small frames whose bytes are enumerated
MaxBody == 2
\* the frame id counter stops here
MaxFrame == 3

(***************************************************************************)
(* Byte helpers                                                            *)
(***************************************************************************)
Lo(v) == v % 256
Hi(v) == (v \div 256) % 256
U16(v) == v % U16_MOD
Le16(s, i) == s[i] + 256 * s[i + 1]

RECURSIVE XorBits(_, _)
XorBits(a, b) == IF a = 0 THEN b
                 ELSE IF b = 0 THEN a
                 ELSE ((a + b) % 2) + 2 * XorBits(a \div 2, b \div 2)

\* exclusive or of two bytes, tabulated
Xor8 == [a \in 0..255 |-> [b \in 0..255 |-> XorBits(a, b)]]

\* exclusive or of two 16-bit values
Xor(a, b) == Xor8[a % 256][b % 256] + 256 * Xor8[a \div 256][b \div 256]

(***************************************************************************)
(* crc16() of lib/crc16.c: table driven, reflected polynomial 0xA001.      *)
(* crc16(crc, data, off, len) folds len bytes of data starting after       *)
(* offset off into crc; the fold is split in halves to keep the            *)
(* evaluation depth logarithmic in len.                                    *)
(***************************************************************************)
RECURSIVE crc16_bits(_, _)
crc16_bits(c, n) ==
    IF n = 0 THEN c
    ELSE crc16_bits(IF c % 2 = 1 THEN XorBits(c \div 2, 40961) ELSE c \div 2,
                    n - 1)

crc16_table == [i \in 0..255 |-> crc16_bits(i, 8)]

crc16_byte(crc, b) ==
    Xor(crc \div 256, crc16_table[Xor8[crc % 256][b]])

RECURSIVE crc16(_, _, _, _)
crc16(crc, data, off, len) ==
    IF len = 0 THEN crc
    ELSE IF len = 1 THEN crc16_byte(crc, data[off + 1])
    ELSE LET h == len \div 2
             c == crc16(crc, data, off, h)
         IN  IF c >= 0 THEN crc16(c, data, off + h, len - h) ELSE 0

(***************************************************************************)
(* Frame encoding: the bytes pcat_pmu_raw_write hands to the transport.    *)
(***************************************************************************)
\* the head with the length field counting the whole foot
frame_head_whole_foot(source, dest, frame_id, cmd, len) ==
    << PCAT_MAGIC_HEAD, source, dest,
       Lo(U16(frame_id)), Hi(U16(frame_id)),
       Lo(U16(len + FOOT_SIZE)), Hi(U16(len + FOOT_SIZE)),
       Lo(U16(cmd)), Hi(U16(cmd)) >>

\* struct pcat_data_head as filled in by pcat_pmu_raw_write (source and
\* dest are parameters so that frames sent by the PMU use the same layout)
frame_head(source, dest, frame_id, cmd, len) ==
    << PCAT_MAGIC_HEAD, source, dest,
       Lo(U16(frame_id)), Hi(U16(frame_id)),
       Lo(U16(len + FOOT_SIZE - 1)), Hi(U16(len + FOOT_SIZE - 1)),
       Lo(U16(cmd)), Hi(U16(cmd)) >>

\* the foot with the CRC started at the head magic
frame_foot_crc_from_magic(head, need_ack, data, len) ==
    LET c1 == crc16(U16_MAX, head, 0, HEAD_SIZE)
        c2 == crc16(c1, data, 0, len)
        c3 == crc16(c2, <<need_ack>>, 0, 1)
    IN  << need_ack, Lo(c3), Hi(c3), PCAT_MAGIC_END >>

\* struct pcat_data_foot: need_ack, crc16 over head[1..], body, need_ack
frame_foot(head, need_ack, data, len) ==
    LET c1 == crc16(U16_MAX, head, 1, HEAD_SIZE - 1)
        c2 == crc16(c1, data, 0, len)
        c3 == crc16(c2, <<need_ack>>, 0, 1)
    IN  << need_ack, Lo(c3), Hi(c3), PCAT_MAGIC_END >>

frame_bytes(source, dest, frame_id, cmd, need_ack, data) ==
    LET head == frame_head(source, dest, frame_id, cmd, Len(data))
    IN  head \o data \o frame_foot(head, need_ack, data, Len(data))

\* what pcat_pmu_raw_write puts on the wire when every write succeeds
raw_write_bytes(frame_id, cmd, need_ack, data) ==
    frame_bytes(PCAT_ADDR_CPU, PCAT_ADDR_PMU, frame_id, cmd,
                IF need_ack THEN 1 ELSE 0, data)

(***************************************************************************)
(* Frame decoding: the validation part of pcat_process_data (lines         *)
(* 320-371).  ret is the value returned when validation stops the frame;   *)
(* ok is TRUE when the frame passed every check and goes on to reply       *)
(* matching and notification.                                              *)
(***************************************************************************)
\* the comparison of line 367 as a slip would write it: low byte only
crc16_mismatch_low(stored, calc) == stored % 256 # calc % 256

\* frame.foot->crc16 != crc16_calc (line 367)
crc16_mismatch(stored, calc) == stored # calc

\* the destination test with the PMU broadcast address let through as well
dest_accepted_any_broadcast(dest) ==
    dest \in {PCAT_ADDR_CPU, PCAT_ADDR_CPU_ALL, PCAT_ADDR_PMU_ALL,
              PCAT_ADDR_ALL}

\* frame.head->source == PCAT_ADDR_PMU (line 333)
source_accepted(source) == source = PCAT_ADDR_PMU

\* the destination is the host, the host broadcast or all (lines 338-340)
dest_accepted(dest) ==
    dest \in {PCAT_ADDR_CPU, PCAT_ADDR_CPU_ALL, PCAT_ADDR_ALL}

\* the test of the end magic left out
magic_end_unchecked(magic_end) == FALSE

\* frame.foot->magic_end != PCAT_MAGIC_END (line 361)
magic_end_bad(magic_end) == magic_end # PCAT_MAGIC_END

NoFrame(r) == [ret |-> r, ok |-> FALSE, frame_id |-> 0, command |-> 0,
               need_ack |-> 0, crc16 |-> 0, crc16_calc |-> 0,
               size |-> 0, data |-> <<>>, head |-> <<>>, foot |-> <<>>]

\* a length test that knows the lower bound only
length_invalid_short_only(length) == length < FOOT_SIZE - 1

\* the range test of head.length (lines 345-346)
length_invalid(length) ==
    length < FOOT_SIZE - 1 \/ length >= U16_MAX - 4

\* a completeness test that wants the buffer to end with the frame
data_size_differs(data_size, len) == data_size # len

\* the completeness test of lines 351-352
data_too_small(data_size, len) == data_size > len

process_data_check(data, len) ==
    IF len < HEAD_SIZE THEN NoFrame(-EAGAIN)
    ELSE IF data[1] # PCAT_MAGIC_HEAD THEN NoFrame(-EBADMSG)
    ELSE IF ~source_accepted(data[2]) THEN NoFrame(0)
    ELSE IF ~dest_accepted(data[3]) THEN NoFrame(0)
    ELSE LET length == Le16(data, 6) IN
    IF length_invalid(length) THEN NoFrame(-EBADMSG)
    ELSE IF data_too_small(HEAD_SIZE + length + 1, len) THEN NoFrame(-EAGAIN)
    ELSE LET size == length + 1 - FOOT_SIZE
             foot == HEAD_SIZE + size
         IN
    IF magic_end_bad(data[foot + 4]) THEN NoFrame(-EBADMSG)
    ELSE LET crc16_calc == crc16(U16_MAX, data, 1, length + 6) IN
    IF crc16_mismatch(Le16(data, foot + 2), crc16_calc)
    THEN NoFrame(-EBADMSG)
    ELSE [ret |-> 0, ok |-> TRUE,
          frame_id |-> Le16(data, 4),
          command |-> Le16(data, 8),
          need_ack |-> data[foot + 1],
          crc16 |-> Le16(data, foot + 2),
          crc16_calc |-> crc16_calc,
          size |-> size,
          data |-> [i \in 1..size |-> data[HEAD_SIZE + i]],
          head |-> [i \in 1..HEAD_SIZE |-> data[i]],
          foot |-> [i \in 1..FOOT_SIZE |-> data[foot + i]]]

(***************************************************************************)
(* State                                                                   *)
(***************************************************************************)
VARIABLES
    frame,          \* pmu->frame, the atomic frame id counter
    buffer,         \* pmu->buffer[0 .. pmu->length-1]
    reply,          \* pmu->reply: 0 (NULL) or the caller whose request is pending
    reply_lock,     \* holder of pmu->reply_lock, 0 when free
    bus_lock,       \* holder of pmu->bus_lock, 0 when free
    notifier_list,  \* pmu->notifier_list in registration order
    req,            \* struct pcat_request of every caller and its position in pcat_pmu_execute
    rx,             \* position of the receive path and the outcome of its last feed
    line,           \* bytes sent by the PMU that the transport has not yet handed over
    codec,          \* a frame handed to the encoder and then to the decoder on its own
    snd,            \* the thread that calls pcat_pmu_send and its position in it
    wire            \* the frame open on the transport: whose write came last and which part

vars == <<frame, buffer, reply, reply_lock, bus_lock, notifier_list, req, rx,
          line, codec, snd, wire>>

\* the threads that call pcat_pmu_execute
Callers == {1, 2}

\* struct pcat_request_reply after memset(reply, 0, ...)
ZeroReply == [head |-> <<>>, foot |-> <<>>, data |-> <<>>, size |-> 0,
              allocated |-> FALSE]

\* the arguments a caller passes to pcat_pmu_execute
Requests ==
    { [cmd |-> PCAT_CMD_PMU_HW_VERSION_GET, want |-> 0, frame_id |-> 0,
       data |-> <<>>],
      [cmd |-> PCAT_CMD_DATE_TIME_SYNC, want |-> PCAT_CMD_DATE_TIME_SYNC + 2,
       frame_id |-> 258, data |-> <<1>>] }

IdleRequest == [pc |-> "idle", frame_id |-> 0, cmd |-> 0, want |-> 0,
                want_arg |-> 0, data |-> <<>>, retries |-> 0, ret |-> 0, received |-> 0,
                reply |-> ZeroReply, nwrites |-> 0, sent |-> {},
                api |-> "execute", len |-> 0, str |-> <<>>, copied |-> 0,
                arg_id |-> 0]

IdleRx == [pc |-> "idle", tag |-> "none", calls |-> 0, size |-> 0,
           processed |-> 0,
           prev_len |-> 0, new_len |-> 0, ret |-> 0, ok |-> FALSE,
           frame_id |-> 0, command |-> 0, need_ack |-> 0,
           matched |-> 0, offered |-> 0, action |-> 0, chain |-> <<>>,
           acted |-> {},
           chain_ret |-> NOTIFY_DONE, acks |-> <<>>, ack_ret |-> 0]

\* no frame is with the codec alone
IdleCodec == [pc |-> "idle", source |-> 0, dest |-> 0, frame_id |-> 0,
              cmd |-> 0,
              need_ack |-> 0, data |-> <<>>, bytes |-> <<>>,
              out |-> NoFrame(0)]

\* no call of pcat_pmu_send is running
IdleSend == [pc |-> "idle", frame_id |-> 0, cmd |-> 0, need_ack |-> FALSE,
             data |-> <<>>, ret |-> 0, nwrites |-> 0, counter |-> 0]

\* no frame is open on the transport
Nobody == <<"none", 0>>
NoWrite == [owner |-> Nobody, part |-> "none"]

\* the writers of frames: a caller of pcat_pmu_execute, the caller of
\* pcat_pmu_send, the receive path with its acknowledgment
Executor(c) == <<"execute", c>>
Sender == <<"send", 0>>
Receiver == <<"receive", 0>>

\* the transport after writer w wrote a part of its frame: the frame is open
\* until its foot is written
written(w, part) ==
    IF part = "foot" THEN NoWrite ELSE [owner |-> w, part |-> part]

\* the transport after a write of writer w failed and w gave its frame up
given_up(w) == IF wire.owner = w THEN NoWrite ELSE wire

\* the state after pcat_pmu_probe allocated the zeroed struct pcat_pmu
Init ==
    /\ frame = 0
    /\ buffer = <<>>
    /\ reply = 0
    /\ reply_lock = 0
    /\ bus_lock = 0
    /\ notifier_list = <<>>
    /\ req = [c \in Callers |-> IdleRequest]
    /\ rx = IdleRx
    /\ line = <<>>
    /\ codec = IdleCodec
    /\ snd = IdleSend
    /\ wire = NoWrite

(***************************************************************************)
(* pcat_pmu_execute, one action per step between two scheduling points     *)
(***************************************************************************)
\* entry: init_completion, memset of the reply (lines 126-133)
E_call(c, r) ==
    /\ req[c].pc = "idle"
    /\ req' = [req EXCEPT ![c] = [IdleRequest EXCEPT
                  !.pc = "lock", !.cmd = r.cmd, !.want = r.want,
                  !.want_arg = r.want,
                  !.frame_id = r.frame_id, !.arg_id = r.frame_id,
                  !.data = r.data]]
    /\ UNCHANGED <<snd, wire, codec, frame, buffer, reply, reply_lock, bus_lock, notifier_list,
                   rx, line>>

\* mutex_lock(&pmu->reply_lock) (line 135)
E_lock(c) ==
    /\ req[c].pc = "lock"
    /\ reply_lock = 0
    /\ reply_lock' = c
    /\ req' = [req EXCEPT ![c].pc = "install"]
    /\ UNCHANGED <<snd, wire, codec, frame, buffer, reply, bus_lock, notifier_list, rx, line>>

\* frame id assignment, installation in the slot, unlock (lines 136-139)
E_install(c) ==
    /\ req[c].pc = "install"
    /\ reply_lock = c
    /\ IF req[c].frame_id = 0
       THEN /\ frame' = frame + 1
            /\ req' = [req EXCEPT ![c].pc = "want",
                                  ![c].frame_id = U16(frame + 1)]
       ELSE /\ frame' = frame
            /\ req' = [req EXCEPT ![c].pc = "want"]
    /\ reply' = c
    /\ reply_lock' = 0
    /\ UNCHANGED <<snd, wire, codec, buffer, bus_lock, notifier_list, rx, line>>

\* default of the expected reply command (lines 141-142)
E_want(c) ==
    /\ req[c].pc = "want"
    /\ req' = [req EXCEPT ![c].pc = "spin",
                          ![c].want = IF req[c].want = 0
                                      THEN U16(req[c].cmd + 1)
                                      ELSE req[c].want]
    /\ UNCHANGED <<snd, wire, codec, frame, buffer, reply, reply_lock, bus_lock, notifier_list,
                   rx, line>>

\* spin_lock_irqsave(&pmu->bus_lock) (line 148)
E_spin(c) ==
    /\ req[c].pc = "spin"
    /\ bus_lock = 0
    /\ bus_lock' = c
    /\ req' = [req EXCEPT ![c].pc = "w_head",
                  ![c].sent = @ \cup {<<req[c].frame_id, req[c].cmd, TRUE,
                                        req[c].data>>}]
    /\ UNCHANGED <<snd, wire, codec, frame, buffer, reply, reply_lock, notifier_list, rx, line>>

\* the three serdev_device_write_buf calls of pcat_pmu_raw_write (lines
\* 74-97) as called from line 149; a failed write returns its error, the
\* spinlock is dropped and execute goes to fail (lines 151-157)
E_write(c, ok) ==
    /\ req[c].pc \in {"w_head", "w_body", "w_foot"}
    /\ bus_lock = c
    /\ IF ~ok
       THEN /\ req' = [req EXCEPT ![c].pc = "fail", ![c].ret = -EIO]
            /\ bus_lock' = 0
            /\ wire' = given_up(Executor(c))
       ELSE IF req[c].pc = "w_head"
       THEN /\ req' = [req EXCEPT ![c].pc = "w_body"]
            /\ bus_lock' = bus_lock
            /\ wire' = written(Executor(c), "head")
       ELSE IF req[c].pc = "w_body"
       THEN /\ req' = [req EXCEPT ![c].pc = "w_foot"]
            /\ bus_lock' = bus_lock
            /\ wire' = written(Executor(c), "body")
       ELSE /\ req' = [req EXCEPT ![c].pc = "wait",
                                  ![c].nwrites = @ + 1]
            /\ bus_lock' = 0
            /\ wire' = written(Executor(c), "foot")
    /\ UNCHANGED <<snd, codec, frame, buffer, reply, reply_lock, notifier_list, rx, line>>

\* wait_for_completion_timeout returns non-zero: the completion was
\* signalled (lines 160, 172-177)
E_completed(c) ==
    /\ req[c].pc = "wait"
    /\ req[c].received > 0
    /\ req' = [req EXCEPT ![c].pc = "done", ![c].ret = 0,
                          ![c].received = @ - 1]
    /\ UNCHANGED <<snd, wire, codec, frame, buffer, reply, reply_lock, bus_lock, notifier_list,
                   rx, line>>

\* the retry test off by one: retries <= 3
E_timeout_extra(c) ==
    /\ req[c].pc = "wait"
    /\ req[c].received = 0
    /\ IF req[c].retries <= MAX_RETRIES
       THEN req' = [req EXCEPT ![c].pc = "spin", ![c].retries = @ + 1]
       ELSE req' = [req EXCEPT ![c].pc = "fail", ![c].ret = -ETIMEDOUT]
    /\ UNCHANGED <<snd, wire, codec, frame, buffer, reply, reply_lock, bus_lock, notifier_list,
                   rx, line>>

\* wait_for_completion_timeout returns 0 after HZ (lines 160-171)
E_timeout(c) ==
    /\ req[c].pc = "wait"
    /\ req[c].received = 0
    /\ IF req[c].retries < MAX_RETRIES
       THEN req' = [req EXCEPT ![c].pc = "spin", ![c].retries = @ + 1]
       ELSE req' = [req EXCEPT ![c].pc = "fail", ![c].ret = -ETIMEDOUT]
    /\ UNCHANGED <<snd, wire, codec, frame, buffer, reply, reply_lock, bus_lock, notifier_list,
                   rx, line>>

\* fail: mutex_lock (line 179)
E_fail_lock(c) ==
    /\ req[c].pc = "fail"
    /\ reply_lock = 0
    /\ reply_lock' = c
    /\ req' = [req EXCEPT ![c].pc = "fail_clear"]
    /\ UNCHANGED <<snd, wire, codec, frame, buffer, reply, bus_lock, notifier_list, rx, line>>

\* the failure path returning with the slot left as it is
E_fail_clear_kept(c) ==
    /\ req[c].pc = "fail_clear"
    /\ reply_lock = c
    /\ reply' = reply
    /\ reply_lock' = 0
    /\ req' = [req EXCEPT ![c].pc = "done"]
    /\ UNCHANGED <<snd, wire, codec, frame, buffer, bus_lock, notifier_list, rx, line>>

\* fail: pmu->reply = NULL, unlock, return ret (lines 180-182)
E_fail_clear(c) ==
    /\ req[c].pc = "fail_clear"
    /\ reply_lock = c
    /\ reply' = 0
    /\ reply_lock' = 0
    /\ req' = [req EXCEPT ![c].pc = "done"]
    /\ UNCHANGED <<snd, wire, codec, frame, buffer, bus_lock, notifier_list, rx, line>>

(***************************************************************************)
(* pcat_pmu_read_string (lines 221-237) around pcat_pmu_execute            *)
(***************************************************************************)
\* the number of bytes the memcpy of lines 232-233 is asked to copy:
\* min(len - 1, request.reply.size) in size_t, where len - 1 is SIZE_MAX
\* for len = 0 and so never the smaller one
read_string_count(len, size) ==
    IF len = 0 THEN size
    ELSE IF len - 1 < size THEN len - 1 ELSE size

\* entry: the request with the command alone, memset(str, 0, len), and the
\* entry of pcat_pmu_execute (lines 225-230)
RS_call(c, cmd, len) ==
    /\ req[c].pc = "idle"
    /\ req' = [req EXCEPT ![c] = [IdleRequest EXCEPT
                  !.pc = "lock", !.cmd = cmd, !.api = "read_string",
                  !.len = len, !.str = [i \in 1..len |-> 0]]]
    /\ UNCHANGED <<snd, wire, codec, frame, buffer, reply, reply_lock,
                   bus_lock, notifier_list, rx, line>>

\* after pcat_pmu_execute returned: the copy of the payload when there is
\* one, and the return (lines 231-236).  str is the memory from the start
\* of the caller's buffer as far as the buffer or the copy reaches.
RS_copy(c) ==
    /\ req[c].pc = "done"
    /\ req[c].api = "read_string"
    /\ LET n == IF req[c].reply.allocated
                THEN read_string_count(req[c].len, req[c].reply.size)
                ELSE 0
           end == IF n > req[c].len THEN n ELSE req[c].len
       IN  req' = [req EXCEPT
                     ![c].pc = "returned",
                     ![c].copied = n,
                     ![c].str = [i \in 1..end |->
                                   IF i <= n THEN req[c].reply.data[i]
                                   ELSE 0]]
    /\ UNCHANGED <<snd, wire, codec, frame, buffer, reply, reply_lock,
                   bus_lock, notifier_list, rx, line>>

(***************************************************************************)
(* Environment: what the PMU sends                                         *)
(***************************************************************************)
\* commands the PMU uses: the expected reply commands 4 and 11 of Requests,
\* the commands two above them, and the status report.  Its frames carry
\* the ids the callers' requests get: 1 and 2 from the counter, 258
\* supplied by the caller.
PmuCmds == {4, 6, PCAT_CMD_STATUS_REPORT, 11, PCAT_CMD_PMU_REQUEST_SHUTDOWN}
Body(n) == [i \in 1..n |-> (64 + i) % 256]
Bodies == {Body(n) : n \in 0..MaxBody}

pmu_frame(dest, frame_id, cmd, need_ack, data) ==
    frame_bytes(PCAT_ADDR_PMU, dest, frame_id, cmd, need_ack, data)

\* frames addressed to the host that arrive in one piece while callers
\* run: the replies to the requests, with and without payload
WholeFrames ==
    { pmu_frame(PCAT_ADDR_CPU, 1, 4, 0, <<65>>),
      pmu_frame(PCAT_ADDR_CPU, 2, 4, 0, <<>>),
      pmu_frame(PCAT_ADDR_CPU, 258, 11, 0, <<65>>) }

\* m with bit k (0..15) of the crc16 field of its foot flipped
FlipCrcBit(m, k) ==
    LET pos == IF k < 8 THEN Len(m) - 2 ELSE Len(m) - 1
        bit == IF k < 8 THEN k ELSE k - 8
    IN  [m EXCEPT ![pos] = Xor8[m[pos]][2 ^ bit]]

DispatchFrames ==
    { pmu_frame(PCAT_ADDR_CPU, 1, cmd, na, <<>>) :
        cmd \in PmuCmds, na \in {0, 1} }
    \cup { pmu_frame(PCAT_ADDR_CPU, 258, cmd, na, <<>>) :
             cmd \in {11, PCAT_CMD_PMU_REQUEST_SHUTDOWN}, na \in {0, 1} }
    \cup { pmu_frame(PCAT_ADDR_CPU, 1, 4, 0, <<65>>),
           pmu_frame(PCAT_ADDR_CPU, 258, 11, 1, <<65>>) }

\* a reply to the request with frame id 1, asking for an acknowledgment,
\* with each single bit of its CRC field flipped
CrcCorruptFrames ==
    { FlipCrcBit(pmu_frame(PCAT_ADDR_CPU, 1, 4, 1, <<65>>), k) : k \in 0..15 }

\* the longest body of a frame that does not exceed sizeof(pmu->buffer)
FitBody == BUFFER_SIZE - HEAD_SIZE - FOOT_SIZE

\* valid frames addressed to the host: status reports with short bodies
\* and a frame one byte longer than the buffer
RxFrames ==
    { pmu_frame(PCAT_ADDR_CPU, 1, PCAT_CMD_STATUS_REPORT, 0, b) : b \in Bodies }
    \cup { pmu_frame(PCAT_ADDR_ALL, 2, PCAT_CMD_PMU_REQUEST_SHUTDOWN, 0,
                     Body(FitBody + 1)) }

\* the same and a frame that fills the buffer exactly
FeedFrames ==
    RxFrames
    \cup { pmu_frame(PCAT_ADDR_CPU_ALL, 2, PCAT_CMD_PMU_REQUEST_SHUTDOWN, 0,
                     Body(FitBody)) }

\* the reply to the request with frame id 1, asking for an acknowledgment
LinkReply == pmu_frame(PCAT_ADDR_CPU, 1, 4, 1, <<65>>)

\* frames the driver does not accept by their addresses: the reply and a
\* status report, from a source that is not the PMU or to a destination
\* that is not the host, otherwise valid
AddrFrames ==
    { frame_bytes(a[1], a[2], 1, cmd, 1, <<65>>) :
        a \in { <<PCAT_ADDR_CPU, PCAT_ADDR_CPU>>,
                <<PCAT_ADDR_PMU_ALL, PCAT_ADDR_ALL>>,
                <<PCAT_ADDR_PMU, PCAT_ADDR_PMU>>,
                <<PCAT_ADDR_PMU, PCAT_ADDR_PMU_ALL>>,
                <<PCAT_ADDR_CPU, PCAT_ADDR_PMU>> },
        cmd \in {4, PCAT_CMD_STATUS_REPORT} }

\* the reply made malformed: a wrong head magic, a wrong end magic, a
\* length field below and above the accepted range, a wrong CRC
BadFrames ==
    { [LinkReply EXCEPT ![1] = PCAT_MAGIC_END],
      [LinkReply EXCEPT ![Len(LinkReply)] = PCAT_MAGIC_HEAD],
      [LinkReply EXCEPT ![6] = FOOT_SIZE - 2],
      [LinkReply EXCEPT ![6] = Lo(U16_MAX - 4), ![7] = Hi(U16_MAX - 4)],
      FlipCrcBit(LinkReply, 0) }

\* the frames of the link under disturbance: these, the reply itself and a
\* status report that asks for an acknowledgment
LinkFrames ==
    AddrFrames \cup BadFrames
    \cup { LinkReply,
           pmu_frame(PCAT_ADDR_CPU_ALL, 2, PCAT_CMD_STATUS_REPORT, 1, <<>>) }

\* process_data_check, tabulated once for the whole frames the PMU sends
KnownFrames ==
    WholeFrames \cup DispatchFrames \cup CrcCorruptFrames \cup FeedFrames
    \cup LinkFrames
KnownChecks == [m \in KnownFrames |-> process_data_check(m, Len(m))]

process_data_validate(data, len) ==
    IF len = Len(data) /\ data \in KnownFrames
    THEN KnownChecks[data]
    ELSE process_data_check(data, len)

(***************************************************************************)
(* Subscribers                                                             *)
(***************************************************************************)
\* the notifier blocks that can be registered: two in-tree feature drivers
\* and one other client of the exported registration interface
Subscribers == {"hwmon", "poweroff", "client"}

\* the drivers of the tree that register a callback
InTree == {"hwmon", "rtc", "supply", "poweroff"}

\* the callbacks with the filter of pcat_poweroff_notify left out
notifier_acts_unfiltered(nb, action) ==
    CASE nb = "hwmon" -> action = PCAT_CMD_STATUS_REPORT
      [] OTHER -> TRUE

\* the command a callback filters on before it uses the frame
\* (pcat_hwmon_notify, pcat_poweroff_notify); the other client takes all
notifier_acts(nb, action) ==
    CASE nb = "hwmon" -> action = PCAT_CMD_STATUS_REPORT
      [] nb = "rtc" -> action = PCAT_CMD_STATUS_REPORT
      [] nb = "supply" -> action = PCAT_CMD_STATUS_REPORT
      [] nb = "poweroff" -> action = PCAT_CMD_PMU_REQUEST_SHUTDOWN
      [] OTHER -> TRUE

\* callbacks of the tree that report a frame they acted on as handled
notifier_call_handled(nb, action, claim) ==
    IF nb \in {"hwmon", "rtc", "supply", "poweroff"}
    THEN IF (nb = "poweroff" /\ action = PCAT_CMD_PMU_REQUEST_SHUTDOWN)
            \/ (nb # "poweroff" /\ action = PCAT_CMD_STATUS_REPORT)
         THEN NOTIFY_OK ELSE NOTIFY_DONE
    ELSE claim

\* the value a callback returns; the in-tree callbacks return NOTIFY_DONE
\* on every path, the other client returns what it chooses (claim)
notifier_call(nb, action, claim) ==
    IF nb \in InTree THEN NOTIFY_DONE ELSE claim

\* blocking_notifier_call_chain: every registered callback is invoked in
\* registration order with the command as action; the frame counts as
\* handled when some callback reported it handled
RECURSIVE chain_ret(_, _, _)
chain_ret(list, action, claim) ==
    IF list = <<>> THEN NOTIFY_DONE
    ELSE IF notifier_call(Head(list), action, claim) # NOTIFY_DONE
         THEN notifier_call(Head(list), action, claim)
         ELSE chain_ret(Tail(list), action, claim)

blocking_notifier_call_chain(list, action, claim) ==
    [action |-> action, chain |-> list,
     acted |-> {list[i] : i \in {j \in 1..Len(list) :
                                    notifier_acts(list[j], action)}},
     ret |-> chain_ret(list, action, claim)]

\* what the other client's callback may return while it is registered
Claims ==
    IF \E i \in 1..Len(notifier_list) : notifier_list[i] = "client"
    THEN {NOTIFY_DONE, NOTIFY_OK} ELSE {NOTIFY_DONE}

\* pcat_pmu_register_notify (lines 419-423)
Register(nb) ==
    /\ \A i \in 1..Len(notifier_list) : notifier_list[i] # nb
    /\ notifier_list' = Append(notifier_list, nb)
    /\ UNCHANGED <<snd, wire, codec, frame, buffer, reply, reply_lock, bus_lock, req, rx, line>>

\* pcat_pmu_unregister_notify (lines 425-428)
Unregister(nb) ==
    /\ \E i \in 1..Len(notifier_list) : notifier_list[i] = nb
    /\ notifier_list' = SelectSeq(notifier_list, LAMBDA x : x # nb)
    /\ UNCHANGED <<snd, wire, codec, frame, buffer, reply, reply_lock, bus_lock, req, rx, line>>

(***************************************************************************)
(* Receive path                                                            *)
(***************************************************************************)
\* pcat_process_reply without the comparison of the command (line 279)
process_reply_any_command(p, alloc) ==
    LET request == reply IN
    IF request = 0
    THEN [processed |-> FALSE, req |-> req, reply |-> reply]
    ELSE IF req[request].frame_id # p.frame_id
    THEN [processed |-> FALSE, req |-> req, reply |-> reply]
    ELSE LET want == IF req[request].want = 0
                     THEN U16(req[request].cmd + 1)
                     ELSE req[request].want
             req1 == [req EXCEPT ![request].want = want]
         IN
    IF FALSE
    THEN [processed |-> FALSE, req |-> req1, reply |-> reply]
    ELSE IF req[request].received > 0
    THEN [processed |-> FALSE, req |-> req1, reply |-> reply]
    ELSE [processed |-> TRUE,
          req |-> [req1 EXCEPT
                     ![request].reply =
                        [head |-> p.head, foot |-> p.foot,
                         data |-> IF p.size > 0 /\ alloc THEN p.data ELSE <<>>,
                         size |-> IF p.size > 0 /\ alloc THEN p.size ELSE 0,
                         allocated |-> p.size > 0 /\ alloc],
                     ![request].received = @ + 1],
          reply |-> 0]

\* pcat_process_reply that completes the request without setting
\* processed (line 304)
process_reply_unreported(p, alloc) ==
    LET request == reply IN
    IF request = 0
    THEN [processed |-> FALSE, req |-> req, reply |-> reply]
    ELSE IF req[request].frame_id # p.frame_id
    THEN [processed |-> FALSE, req |-> req, reply |-> reply]
    ELSE LET want == IF req[request].want = 0
                     THEN U16(req[request].cmd + 1)
                     ELSE req[request].want
             req1 == [req EXCEPT ![request].want = want]
         IN
    IF want # p.command
    THEN [processed |-> FALSE, req |-> req1, reply |-> reply]
    ELSE IF req[request].received > 0
    THEN [processed |-> FALSE, req |-> req1, reply |-> reply]
    ELSE [processed |-> FALSE,
          req |-> [req1 EXCEPT
                     ![request].reply =
                        [head |-> p.head, foot |-> p.foot,
                         data |-> IF p.size > 0 /\ alloc THEN p.data ELSE <<>>,
                         size |-> IF p.size > 0 /\ alloc THEN p.size ELSE 0,
                         allocated |-> p.size > 0 /\ alloc],
                     ![request].received = @ + 1],
          reply |-> 0]

\* pcat_process_reply that leaves the completed request in the slot (line
\* 303 left out)
process_reply_slot_kept(p, alloc) ==
    LET request == reply IN
    IF request = 0
    THEN [processed |-> FALSE, req |-> req, reply |-> reply]
    ELSE IF req[request].frame_id # p.frame_id
    THEN [processed |-> FALSE, req |-> req, reply |-> reply]
    ELSE LET want == IF req[request].want = 0
                     THEN U16(req[request].cmd + 1)
                     ELSE req[request].want
             req1 == [req EXCEPT ![request].want = want]
         IN
    IF want # p.command
    THEN [processed |-> FALSE, req |-> req1, reply |-> reply]
    ELSE IF req[request].received > 0
    THEN [processed |-> FALSE, req |-> req1, reply |-> reply]
    ELSE [processed |-> TRUE,
          req |-> [req1 EXCEPT
                     ![request].reply =
                        [head |-> p.head, foot |-> p.foot,
                         data |-> IF p.size > 0 /\ alloc THEN p.data ELSE <<>>,
                         size |-> IF p.size > 0 /\ alloc THEN p.size ELSE 0,
                         allocated |-> p.size > 0 /\ alloc],
                     ![request].received = @ + 1],
          reply |-> reply]

\* pcat_process_reply (lines 254-309) for the validated frame p; alloc is
\* whether devm_kzalloc of the payload copy succeeds.  The result carries
\* the new requests, the new slot and whether the frame was processed.
process_reply(p, alloc) ==
    LET request == reply IN
    IF request = 0
    THEN [processed |-> FALSE, req |-> req, reply |-> reply]
    ELSE IF req[request].frame_id # p.frame_id
    THEN [processed |-> FALSE, req |-> req, reply |-> reply]
    ELSE LET want == IF req[request].want = 0
                     THEN U16(req[request].cmd + 1)
                     ELSE req[request].want
             req1 == [req EXCEPT ![request].want = want]
         IN
    IF want # p.command
    THEN [processed |-> FALSE, req |-> req1, reply |-> reply]
    ELSE IF req[request].received > 0
    THEN [processed |-> FALSE, req |-> req1, reply |-> reply]
    ELSE [processed |-> TRUE,
          req |-> [req1 EXCEPT
                     ![request].reply =
                        [head |-> p.head, foot |-> p.foot,
                         data |-> IF p.size > 0 /\ alloc THEN p.data ELSE <<>>,
                         size |-> IF p.size > 0 /\ alloc THEN p.size ELSE 0,
                         allocated |-> p.size > 0 /\ alloc],
                     ![request].received = @ + 1],
          reply |-> 0]

\* the acknowledgment with the command of the frame instead of command + 1
ack_frame_same_command(p) ==
    [frame_id |-> p.frame_id, cmd |-> U16(p.command), need_ack |-> FALSE,
     data |-> <<>>]

\* the acknowledgment numbered from the frame counter like a frame of
\* pcat_pmu_send
ack_frame_counter_id(p) ==
    [frame_id |-> U16(frame + 1), cmd |-> U16(p.command + 1),
     need_ack |-> FALSE, data |-> <<>>]

\* the arguments of the pcat_pmu_raw_write call of lines 379-380
ack_frame(p) ==
    [frame_id |-> p.frame_id, cmd |-> U16(p.command + 1), need_ack |-> FALSE,
     data |-> <<>>]

\* the feed without the cap of lines 397-400
feed_fit_uncapped(length, size) ==
    [new_len |-> length + size, processed |-> size]

\* new_len and processed of pcat_pmu_receive_buf (lines 391-400) for a
\* buffer holding length bytes and a feed of size bytes
feed_fit(length, size) ==
    IF length + size > BUFFER_SIZE
    THEN [new_len |-> BUFFER_SIZE, processed |-> BUFFER_SIZE - length]
    ELSE [new_len |-> length + size, processed |-> size]

\* the buffer kept whenever no frame was decoded
feed_keep_unless_decoded(ret) == ret # 0

\* the buffer is kept for the next feed: ret == -EAGAIN (lines 407-410)
feed_keep(ret) == ret = -EAGAIN

\* pcat_pmu_receive_buf (lines 386-412) called with buf while the buffer
\* holds the bytes held, together with the pcat_process_data it calls
\* (lines 311-384): the buffer with processed bytes of buf copied behind
\* the held ones and new_len as its length is handed to the decoder.  When
\* the frame has to be acknowledged the receive path goes on to the writes
\* of the ack (RxAckWrite) and clears the buffer after them; otherwise the
\* call returns here.  calls counts the calls the step stands for.
pcat_pmu_receive_buf(held, buf, alloc, claim, tag, calls) ==
    LET size == Len(buf)
        new_len == feed_fit(Len(held), size).new_len
        processed == feed_fit(Len(held), size).processed
    IN
    /\ size > 0
    /\ \E data \in {IF Len(held) + processed = new_len
                     THEN held \o SubSeq(buf, 1, processed)
                     ELSE [i \in 1..new_len |->
                             IF i <= Len(held) THEN held[i]
                             ELSE IF i <= Len(held) + processed
                             THEN buf[i - Len(held)] ELSE 0]} :
       \E p \in {process_data_validate(data, new_len)} :
       \E r \in {IF p.ok THEN process_reply(p, alloc)
                 ELSE [processed |-> FALSE, req |-> req, reply |-> reply]} :
       \E n \in {IF p.ok /\ ~r.processed
                 THEN blocking_notifier_call_chain(notifier_list, p.command,
                                                   claim)
                 ELSE [action |-> 0, chain |-> <<>>, acted |-> {},
                       ret |-> NOTIFY_DONE]} :
       LET matched == /\ p.ok
                      /\ reply # 0
                      /\ r.req[reply].received > req[reply].received
           offered == p.ok /\ ~r.processed
           ack == offered /\ n.ret = NOTIFY_DONE /\ p.need_ack # 0
       IN
       /\ req' = r.req
       /\ reply' = r.reply
       /\ buffer' = IF feed_keep(p.ret) \/ ack THEN data ELSE <<>>
       /\ rx' = [pc |-> IF ack THEN "ack_head" ELSE "idle", tag |-> tag,
                 calls |-> calls,
                 size |-> size, processed |-> processed,
                 prev_len |-> Len(held), new_len |-> new_len,
                 ret |-> p.ret, ok |-> p.ok,
                 frame_id |-> p.frame_id, command |-> p.command,
                 need_ack |-> p.need_ack,
                 matched |-> IF matched THEN reply ELSE 0,
                 offered |-> IF offered THEN 1 ELSE 0,
                 action |-> n.action, chain |-> n.chain, acted |-> n.acted,
                 chain_ret |-> n.ret,
                 acks |-> IF ack THEN <<ack_frame(p)>> ELSE <<>>,
                 ack_ret |-> 0]

\* the transport hands over a whole message at once; tag names the kind of
\* message the PMU sent
Receive(buf, alloc, claim, tag) ==
    /\ rx.pc = "idle"
    /\ reply_lock = 0
    /\ line = <<>>
    /\ pcat_pmu_receive_buf(buffer, buf, alloc, claim, tag, 1)
    /\ UNCHANGED <<snd, wire, codec, frame, reply_lock, bus_lock, notifier_list, line>>

\* the transport hands over the next k bytes of the line; the bytes the
\* callback did not consume stay queued in the transport.  The tag is
\* "byte" while every feed since the buffer was last empty was one byte
\* long, and "bytes" otherwise.
Deliver(k, alloc, claim) ==
    /\ rx.pc = "idle"
    /\ reply_lock = 0
    /\ k \in 1..Len(line)
    /\ pcat_pmu_receive_buf(buffer, SubSeq(line, 1, k), alloc, claim,
                            IF k = 1 /\ (buffer = <<>> \/ rx.tag = "byte")
                            THEN "byte" ELSE "bytes", 1)
    /\ line' = SubSeq(line, rx'.processed + 1, Len(line))
    /\ UNCHANGED <<snd, wire, codec, frame, reply_lock, bus_lock, notifier_list>>

\* the transport hands over the first n bytes of a frame one byte per call
\* while the buffer is empty: each call before the last appended its byte
\* and returned -EAGAIN, so that the last call finds the n - 1 bytes before
\* it in the buffer
DeliverEach(n, alloc, claim) ==
    /\ rx.pc = "idle"
    /\ reply_lock = 0
    /\ buffer = <<>>
    /\ n \in 2..Len(line)
    /\ {j \in 1..(n - 1) : \/ feed_fit(j - 1, 1).processed # 1
                            \/ process_data_check(line, j).ret # -EAGAIN} = {}
    /\ pcat_pmu_receive_buf(SubSeq(line, 1, n - 1), <<line[n]>>, alloc, claim,
                            "byte", n)
    /\ line' = SubSeq(line, n + rx'.processed, Len(line))
    /\ UNCHANGED <<snd, wire, codec, frame, reply_lock, bus_lock, notifier_list>>

\* the writes of the acknowledgment (pcat_pmu_raw_write called from line
\* 379, its result ignored), then the return to pcat_pmu_receive_buf, which
\* clears the buffer (lines 407-408)
RxAckWrite(ok) ==
    /\ rx.pc \in {"ack_head", "ack_body", "ack_foot"}
    /\ IF ok /\ rx.pc = "ack_head"
       THEN /\ rx' = [rx EXCEPT !.pc = "ack_body"]
            /\ buffer' = buffer
            /\ wire' = written(Receiver, "head")
       ELSE IF ok /\ rx.pc = "ack_body"
       THEN /\ rx' = [rx EXCEPT !.pc = "ack_foot"]
            /\ buffer' = buffer
            /\ wire' = written(Receiver, "body")
       ELSE /\ rx' = [rx EXCEPT !.pc = "idle",
                                !.ack_ret = IF ok THEN 0 ELSE -EIO]
            /\ buffer' = <<>>
            /\ wire' = IF ok THEN written(Receiver, "foot") ELSE given_up(Receiver)
    /\ UNCHANGED <<snd, codec, frame, reply, reply_lock, bus_lock, notifier_list, req, line>>

(***************************************************************************)
(* pcat_pmu_send                                                           *)
(***************************************************************************)
\* the commands and bodies the sender passes
SendRequests ==
    { [cmd |-> PCAT_CMD_HEARTBEAT, data |-> <<>>],
      [cmd |-> PCAT_CMD_CHARGER_ON_AUTO_START, data |-> <<1>>] }

\* the values of the frame counter the model starts from: 0 after probe,
\* and two before the 16 bits of a frame id wrap
FrameStarts == {0, U16_MAX - 1}

\* at most MaxFrame frame ids are taken from the counter before a send
SendAllowed == \E f0 \in FrameStarts : f0 <= frame /\ frame < f0 + MaxFrame

\* pcat_pmu_send reading the counter without advancing it
S_call_stale(r) ==
    /\ snd.pc \in {"idle", "done"}
    /\ SendAllowed
    /\ frame' = frame
    /\ snd' = [pc |-> "w_head", frame_id |-> U16(frame + 1), cmd |-> r.cmd,
               need_ack |-> FALSE, data |-> r.data, ret |-> 0, nwrites |-> 0,
               counter |-> frame]
    /\ UNCHANGED <<wire, codec, buffer, reply, reply_lock, bus_lock,
                   notifier_list, req, rx, line>>

\* entry of pcat_pmu_send: the frame id from the counter (line 112) and the
\* arguments of its one call of pcat_pmu_raw_write (line 114)
S_call(r) ==
    /\ snd.pc \in {"idle", "done"}
    /\ SendAllowed
    /\ frame' = frame + 1
    /\ snd' = [pc |-> "w_head", frame_id |-> U16(frame + 1), cmd |-> r.cmd,
               need_ack |-> FALSE, data |-> r.data, ret |-> 0, nwrites |-> 0,
               counter |-> frame]
    /\ UNCHANGED <<wire, codec, buffer, reply, reply_lock, bus_lock,
                   notifier_list, req, rx, line>>

\* the writes of a sender that starts its frame again after a failed write
S_write_retry(res) ==
    /\ snd.pc \in {"w_head", "w_body", "w_foot"}
    /\ IF res < 0
       THEN /\ snd' = [snd EXCEPT !.pc = "w_head", !.ret = res]
            /\ wire' = given_up(Sender)
       ELSE IF snd.pc = "w_head"
       THEN /\ snd' = [snd EXCEPT !.pc = "w_body"]
            /\ wire' = written(Sender, "head")
       ELSE IF snd.pc = "w_body"
       THEN /\ snd' = [snd EXCEPT !.pc = "w_foot"]
            /\ wire' = written(Sender, "body")
       ELSE /\ snd' = [snd EXCEPT !.pc = "done", !.ret = res,
                                  !.nwrites = @ + 1]
            /\ wire' = written(Sender, "foot")
    /\ UNCHANGED <<codec, frame, buffer, reply, reply_lock, bus_lock,
                   notifier_list, req, rx, line>>

\* the three serdev_device_write_buf calls of that pcat_pmu_raw_write (lines
\* 74-97), made without pmu->bus_lock; res is what the transport returns: a
\* negative error ends the call, and the call returns the result of the
\* last write made
S_write(res) ==
    /\ snd.pc \in {"w_head", "w_body", "w_foot"}
    /\ IF res < 0
       THEN /\ snd' = [snd EXCEPT !.pc = "done", !.ret = res]
            /\ wire' = given_up(Sender)
       ELSE IF snd.pc = "w_head"
       THEN /\ snd' = [snd EXCEPT !.pc = "w_body"]
            /\ wire' = written(Sender, "head")
       ELSE IF snd.pc = "w_body"
       THEN /\ snd' = [snd EXCEPT !.pc = "w_foot"]
            /\ wire' = written(Sender, "body")
       ELSE /\ snd' = [snd EXCEPT !.pc = "done", !.ret = res,
                                  !.nwrites = @ + 1]
            /\ wire' = written(Sender, "foot")
    /\ UNCHANGED <<codec, frame, buffer, reply, reply_lock, bus_lock,
                   notifier_list, req, rx, line>>

(***************************************************************************)
(* Specification of the request engine: concurrent callers of              *)
(* pcat_pmu_execute and the receive path, frames arriving whole            *)
(***************************************************************************)
Next ==
    \/ \E c \in Callers, r \in Requests : E_call(c, r)
    \/ \E c \in Callers : E_lock(c)
    \/ \E c \in Callers : E_install(c)
    \/ \E c \in Callers : E_want(c)
    \/ \E c \in Callers : E_spin(c)
    \/ \E c \in Callers, ok \in BOOLEAN : E_write(c, ok)
    \/ \E c \in Callers : E_completed(c)
    \/ \E c \in Callers : E_timeout(c)
    \/ \E c \in Callers : E_fail_lock(c)
    \/ \E c \in Callers : E_fail_clear(c)
    \/ \E m \in WholeFrames : Receive(m, TRUE, NOTIFY_DONE, "frame")

Spec == Init /\ [][Next]_vars

(***************************************************************************)
(* Specification of the dispatcher: one caller of pcat_pmu_execute,        *)
(* subscribers that register and unregister, and whole frames of every     *)
(* kind arriving from the PMU, some of them with a corrupted CRC field     *)
(***************************************************************************)
\* the caller runs up to the wait for its reply; its timeouts and write
\* failures are part of Spec
NextDispatch ==
    \/ \E r \in Requests : E_call(1, r)
    \/ E_lock(1)
    \/ E_install(1)
    \/ E_want(1)
    \/ E_spin(1)
    \/ E_write(1, TRUE)
    \/ E_completed(1)
    \/ \E nb \in Subscribers : Register(nb)
    \/ \E m \in DispatchFrames, claim \in Claims :
          Receive(m, TRUE, claim, "frame")
    \/ \E m \in CrcCorruptFrames : Receive(m, TRUE, NOTIFY_OK, "crc")
    \/ \E ok \in BOOLEAN : RxAckWrite(ok)

SpecDispatch == Init /\ [][NextDispatch]_vars

(***************************************************************************)
(* Specification of the writers: a caller of pcat_pmu_execute, a caller    *)
(* of pcat_pmu_send and the receive path acknowledging frames of the PMU   *)
(***************************************************************************)
\* frames of the PMU that ask for an acknowledgment and the reply to the
\* caller's request
WriteFrames ==
    { pmu_frame(PCAT_ADDR_CPU, 1, PCAT_CMD_STATUS_REPORT, 1, <<>>),
      pmu_frame(PCAT_ADDR_CPU, 1, 4, 0, <<65>>),
      pmu_frame(PCAT_ADDR_CPU, 258, 11, 0, <<65>>) }

\* what serdev_device_write_buf returns to the sender: an error, or a count
SendResults == {-EIO, 0, FOOT_SIZE}

NextWrite ==
    \/ \E r \in Requests : E_call(1, r)
    \/ E_lock(1)
    \/ E_install(1)
    \/ E_want(1)
    \/ E_spin(1)
    \/ \E ok \in BOOLEAN : E_write(1, ok)
    \/ E_completed(1)
    \/ E_timeout(1)
    \/ E_fail_lock(1)
    \/ E_fail_clear(1)
    \/ \E r \in SendRequests : S_call(r)
    \/ \E res \in SendResults : S_write(res)
    \/ \E m \in WriteFrames : Receive(m, TRUE, NOTIFY_DONE, "frame")
    \/ \E ok \in BOOLEAN : RxAckWrite(ok)

SpecWrite == Init /\ [][NextWrite]_vars

(***************************************************************************)
(* Specifications of the reassembly buffer: the PMU puts one frame at a    *)
(* time on the line and the transport hands it to pcat_pmu_receive_buf,    *)
(* one byte per call in SpecRx, in pieces of any size in SpecFeed          *)
(***************************************************************************)
\* the PMU sends the frame m
PmuSend(m) ==
    /\ line = <<>>
    /\ rx.pc = "idle"
    /\ line' = m
    /\ UNCHANGED <<snd, wire, codec, frame, buffer, reply, reply_lock, bus_lock,
                   notifier_list, req, rx>>

NextRx ==
    \/ \E m \in RxFrames : PmuSend(m)
    \/ Deliver(1, TRUE, NOTIFY_DONE)
    \/ DeliverEach(Len(line) - 1, TRUE, NOTIFY_DONE)

SpecRx == Init /\ [][NextRx]_vars

\* the same with the transport handing over what it holds, and the PMU
\* sending its next frame, as long as a step is possible: the transport
\* calls receive_buf again while bytes are left
SpecRxFair == SpecRx /\ WF_vars(NextRx)

\* the transport hands over all it holds, the first half of it, or its
\* first byte when that is all that is left
NextFeed ==
    \/ \E m \in FeedFrames : PmuSend(m)
    \/ \E k \in {Len(line), (Len(line) + 1) \div 2} :
          Deliver(k, TRUE, NOTIFY_DONE)
    \/ \E nb \in {"hwmon", "poweroff"} : Register(nb)
    \/ \E nb \in {"hwmon", "poweroff"} : Unregister(nb)

SpecFeed == Init /\ [][NextFeed]_vars

(***************************************************************************)
(* Specification of the link under disturbance: a caller waits for its     *)
(* reply while the PMU line carries malformed frames, frames for other     *)
(* addresses and valid ones, handed over whole or in two or more pieces    *)
(***************************************************************************)
NextLink ==
    \/ \E r \in Requests : E_call(1, r)
    \/ E_lock(1)
    \/ E_install(1)
    \/ E_want(1)
    \/ E_spin(1)
    \/ E_write(1, TRUE)
    \/ E_completed(1)
    \/ Register("hwmon")
    \/ \E m \in LinkFrames : PmuSend(m)
    \/ \E k \in {Len(line), (Len(line) + 1) \div 2} :
          Deliver(k, TRUE, NOTIFY_DONE)
    \/ \E ok \in BOOLEAN : RxAckWrite(ok)

SpecLink == Init /\ [][NextLink]_vars

(***************************************************************************)
(* Specification of pcat_pmu_read_string: one caller with buffers of       *)
(* every small size, the PMU replying with payloads of every small size    *)
(***************************************************************************)
\* the sizes of the caller's buffer and of the reply payload
StrLens == 0..(MaxBody + 1)
StringFrames ==
    { pmu_frame(PCAT_ADDR_CPU, 1, 4, 0, Body(n)) : n \in 0..(MaxBody + 1) }

NextString ==
    \/ \E len \in StrLens : RS_call(1, PCAT_CMD_PMU_HW_VERSION_GET, len)
    \/ E_lock(1)
    \/ E_install(1)
    \/ E_want(1)
    \/ E_spin(1)
    \/ \E ok \in BOOLEAN : E_write(1, ok)
    \/ E_completed(1)
    \/ E_timeout(1)
    \/ E_fail_lock(1)
    \/ E_fail_clear(1)
    \/ \E m \in StringFrames, alloc \in BOOLEAN :
          Receive(m, alloc, NOTIFY_DONE, "frame")
    \/ RS_copy(1)

SpecString == Init /\ [][NextString]_vars

(***************************************************************************)
(* Specification of the codec alone: a frame is encoded as                 *)
(* pcat_pmu_raw_write encodes it, with the addresses of a frame the PMU    *)
(* sends to the host, and the bytes are handed to the validation of        *)
(* pcat_process_data                                                       *)
(***************************************************************************)
HostAddrs == {PCAT_ADDR_CPU, PCAT_ADDR_CPU_ALL, PCAT_ADDR_ALL}
CodecCmds == {PCAT_CMD_HEARTBEAT, PCAT_CMD_STATUS_REPORT,
              PCAT_CMD_CHARGER_ON_AUTO_START, U16_MAX}

CodecInput(dest, frame_id, cmd, need_ack, n) ==
    [IdleCodec EXCEPT !.pc = "input", !.source = PCAT_ADDR_PMU,
                      !.dest = dest, !.frame_id = frame_id,
                      !.cmd = cmd, !.need_ack = need_ack, !.data = Body(n)]

\* a frame as the host sends it: head.source and head.dest of lines 68-69
HostInput(frame_id, cmd, need_ack, n) ==
    [CodecInput(PCAT_ADDR_PMU, frame_id, cmd, need_ack, n)
       EXCEPT !.source = PCAT_ADDR_CPU]

\* short bodies with every command, address, flag and frame id; the body
\* one longer than the buffer and the bodies around the largest length the
\* decoder accepts with one of each
CodecInputs ==
    { CodecInput(dest, frame_id, cmd, need_ack, n) :
        dest \in HostAddrs, frame_id \in {0, 258}, cmd \in CodecCmds,
        need_ack \in {0, 1}, n \in 0..MaxBody }
    \cup { CodecInput(PCAT_ADDR_CPU, 1, PCAT_CMD_STATUS_REPORT, 1, n) :
             n \in {FitBody + 1, U16_MAX - 8, U16_MAX - 7} }
    \cup { HostInput(frame_id, cmd, need_ack, n) :
             frame_id \in {0, 1, 258, U16_MAX}, cmd \in CodecCmds,
             need_ack \in {0, 1}, n \in 0..MaxBody }

InitCodec ==
    /\ frame = 0
    /\ buffer = <<>>
    /\ reply = 0
    /\ reply_lock = 0
    /\ bus_lock = 0
    /\ notifier_list = <<>>
    /\ req = [c \in Callers |-> IdleRequest]
    /\ rx = IdleRx
    /\ line = <<>>
    /\ codec \in CodecInputs
    /\ snd = IdleSend
    /\ wire = NoWrite

\* the bytes pcat_pmu_raw_write produces for the frame (lines 67-91)
Encode ==
    /\ codec.pc = "input"
    /\ codec' = [codec EXCEPT
                   !.pc = "encoded",
                   !.bytes = frame_bytes(codec.source, codec.dest,
                                         codec.frame_id, codec.cmd,
                                         codec.need_ack, codec.data)]
    /\ UNCHANGED <<frame, buffer, reply, reply_lock, bus_lock, notifier_list,
                   req, rx, line, snd, wire>>

\* the validation of pcat_process_data on these bytes (lines 320-371)
Decode ==
    /\ codec.pc = "encoded"
    /\ codec' = [codec EXCEPT
                   !.pc = "decoded",
                   !.out = process_data_check(codec.bytes, Len(codec.bytes))]
    /\ UNCHANGED <<frame, buffer, reply, reply_lock, bus_lock, notifier_list,
                   req, rx, line, snd, wire>>

NextCodec == Encode \/ Decode

SpecCodec == InitCodec /\ [][NextCodec]_vars

(***************************************************************************)
(* Specification of the frame counter: two callers of pcat_pmu_execute     *)
(* with their retries and the callers of pcat_pmu_send take frame ids,     *)
(* from a counter that starts at 0 or just before the ids wrap             *)
(***************************************************************************)
InitIds ==
    /\ frame \in FrameStarts
    /\ buffer = <<>>
    /\ reply = 0
    /\ reply_lock = 0
    /\ bus_lock = 0
    /\ notifier_list = <<>>
    /\ req = [c \in Callers |-> IdleRequest]
    /\ rx = IdleRx
    /\ line = <<>>
    /\ codec = IdleCodec
    /\ snd = IdleSend
    /\ wire = NoWrite

NextIds ==
    \/ \E c \in Callers, r \in Requests : E_call(c, r)
    \/ \E c \in Callers : E_lock(c)
    \/ \E c \in Callers : E_install(c)
    \/ \E c \in Callers : E_want(c)
    \/ \E c \in Callers : E_spin(c)
    \/ \E c \in Callers : E_write(c, TRUE)
    \/ \E c \in Callers : E_timeout(c)
    \/ \E r \in SendRequests : S_call(r)
    \/ S_write(FOOT_SIZE)

SpecIds == InitIds /\ [][NextIds]_vars

(***************************************************************************)
(* Specification of the validation alone on arbitrary bytes: a frame of    *)
(* the PMU with any of its head magic, addresses, length, end magic and    *)
(* CRC damaged, cut after any number of bytes or followed by one more      *)
(***************************************************************************)
DecodeBase(n) == pmu_frame(PCAT_ADDR_CPU, 1, 4, 1, Body(n))

\* the values written over the length field; -1 keeps the length
DecodeLengths == {-1, 0, FOOT_SIZE - 2, FOOT_SIZE - 1, U16_MAX - 5,
                  U16_MAX - 4, U16_MAX}

Damage(b, head, source, dest, length, end, flip) ==
    LET b1 == [b EXCEPT ![1] = head, ![2] = source, ![3] = dest]
        b2 == IF length < 0 THEN b1
              ELSE [b1 EXCEPT ![6] = Lo(length), ![7] = Hi(length)]
        b3 == [b2 EXCEPT ![Len(b)] = end]
    IN IF flip THEN FlipCrcBit(b3, 0) ELSE b3

Cut(b, k) == IF k > Len(b) THEN b \o <<0>> ELSE SubSeq(b, 1, k)

DecodeInputs ==
    { [IdleCodec EXCEPT
         !.pc = "raw",
         !.bytes = Cut(Damage(DecodeBase(n), head, source, dest, length,
                              end, flip), k)] :
        n \in 0..MaxBody,
        head \in {PCAT_MAGIC_HEAD, PCAT_MAGIC_END},
        source \in {PCAT_ADDR_PMU, PCAT_ADDR_CPU},
        dest \in {PCAT_ADDR_CPU, PCAT_ADDR_PMU_ALL},
        length \in DecodeLengths,
        end \in {PCAT_MAGIC_END, PCAT_MAGIC_HEAD},
        flip \in BOOLEAN,
        k \in 0..(HEAD_SIZE + MaxBody + FOOT_SIZE + 1) }

InitDecode ==
    /\ frame = 0
    /\ buffer = <<>>
    /\ reply = 0
    /\ reply_lock = 0
    /\ bus_lock = 0
    /\ notifier_list = <<>>
    /\ req = [c \in Callers |-> IdleRequest]
    /\ rx = IdleRx
    /\ line = <<>>
    /\ codec \in DecodeInputs
    /\ snd = IdleSend
    /\ wire = NoWrite

\* the validation of pcat_process_data on these bytes (lines 320-371)
DecodeRaw ==
    /\ codec.pc = "raw"
    /\ codec' = [codec EXCEPT
                   !.pc = "checked",
                   !.out = process_data_check(codec.bytes, Len(codec.bytes))]
    /\ UNCHANGED <<frame, buffer, reply, reply_lock, bus_lock, notifier_list,
                   req, rx, line, snd, wire>>

NextDecode == DecodeRaw

SpecDecode == InitDecode /\ [][NextDecode]_vars

(***************************************************************************)
(* Specification of frames sent back to back: the PMU sends a valid frame  *)
(* directly followed by a second frame or by the start of one, and the     *)
(* transport hands the bytes over in one feed or in two                    *)
(***************************************************************************)
BurstFrames ==
    { LinkReply,
      pmu_frame(PCAT_ADDR_CPU_ALL, 2, PCAT_CMD_STATUS_REPORT, 1, <<>>),
      pmu_frame(PCAT_ADDR_CPU, 3, PCAT_CMD_PMU_REQUEST_SHUTDOWN, 0, <<1>>) }

\* how much of the second frame follows the first
BurstCuts == {5, HEAD_SIZE + MaxBody + FOOT_SIZE}

Bursts ==
    { a \o SubSeq(b, 1, IF k < Len(b) THEN k ELSE Len(b)) :
        a \in BurstFrames, b \in BurstFrames, k \in BurstCuts }

NextBurst ==
    \/ \E r \in Requests : E_call(1, r)
    \/ E_lock(1)
    \/ E_install(1)
    \/ E_want(1)
    \/ E_spin(1)
    \/ E_write(1, TRUE)
    \/ E_completed(1)
    \/ Register("hwmon")
    \/ \E m \in Bursts : PmuSend(m)
    \/ \E k \in {Len(line), (Len(line) + 1) \div 2} :
          Deliver(k, TRUE, NOTIFY_DONE)
    \/ \E ok \in BOOLEAN : RxAckWrite(ok)

SpecBurst == Init /\ [][NextBurst]_vars

(***************************************************************************)
(* Specification of the subscribers of the tree: hwmon, rtc, supply and    *)
(* poweroff register in any order, one caller waits for a reply, and the   *)
(* PMU sends a reply, a status report and shutdown requests with and       *)
(* without the need-ack flag                                               *)
(***************************************************************************)
InTreeFrames ==
    { pmu_frame(PCAT_ADDR_CPU, 1, 4, 1, <<1>>),
      pmu_frame(PCAT_ADDR_CPU, 1, PCAT_CMD_STATUS_REPORT, 1, <<1>>),
      pmu_frame(PCAT_ADDR_CPU, 1, PCAT_CMD_PMU_REQUEST_SHUTDOWN, 0, <<1>>),
      pmu_frame(PCAT_ADDR_CPU, 1, PCAT_CMD_PMU_REQUEST_SHUTDOWN, 1, <<1>>) }

NextInTree ==
    \/ E_call(1, CHOOSE r \in Requests : r.frame_id = 0)
    \/ E_lock(1)
    \/ E_install(1)
    \/ E_want(1)
    \/ E_spin(1)
    \/ E_write(1, TRUE)
    \/ E_completed(1)
    \/ \E nb \in InTree : Register(nb)
    \/ \E m \in InTreeFrames : Receive(m, TRUE, NOTIFY_DONE, "frame")
    \/ RxAckWrite(TRUE)

SpecInTree == Init /\ [][NextInTree]_vars

(***************************************************************************)
(* Properties                                                              *)
(***************************************************************************)
\* a step in which pcat_pmu_receive_buf was called: the receive path was
\* idle and the step is none of a caller (which moves the caller on), of a
\* subscriber, of the PMU sending or of the codec alone
FeedStep ==
    /\ rx.pc = "idle"
    /\ \A c \in Callers : req'[c].pc = req[c].pc
    /\ notifier_list' = notifier_list
    /\ Len(line') <= Len(line)
    /\ codec' = codec
    /\ snd' = snd

\* caller c has installed its request and has not yet completed, timed out
\* for the last time or failed
Unresolved(c) ==
    /\ req[c].pc \in {"want", "spin", "w_head", "w_body", "w_foot", "wait"}
    /\ req[c].received = 0

\* the reply command caller c expects, from the arguments of its call
ExpectedReply(c) ==
    IF req[c].want_arg = 0 THEN U16(req[c].cmd + 1) ELSE req[c].want_arg

\* C1: while the slot holds a request that is still unresolved, no other
\* execute call installs itself: the slot keeps that request or becomes
\* empty, it is never overwritten with another request.
C1_SlotNeverOverwritten ==
    [][ (reply # 0 /\ Unresolved(reply)) => reply' \in {reply, 0} ]_vars

\* C2: a call never writes its frame more than 4 times, every write of one
\* call carries the same frame id, command, body and need-ack = true, and a
\* call that ends with the timeout error has written exactly 4 times and
\* timed out after each write.
C2_RetryBound ==
    \A c \in Callers :
        /\ req[c].nwrites <= MAX_RETRIES + 1
        /\ req[c].retries <= MAX_RETRIES
        /\ req[c].sent \subseteq
              {<<req[c].frame_id, req[c].cmd, TRUE, req[c].data>>}
        /\ req[c].ret = -ETIMEDOUT =>
              /\ req[c].nwrites = 4
              /\ req[c].retries = 3
              /\ req[c].pc \in {"fail", "fail_clear", "done"}
        /\ (req[c].pc = "done" /\ req[c].ret \notin {0, -EIO}) =>
              req[c].ret = -ETIMEDOUT

C2_Witness ==
    \E c \in Callers :
        /\ req[c].pc = "done"
        /\ req[c].ret = -ETIMEDOUT
        /\ req[c].nwrites = 4
        /\ req[c].reply = ZeroReply

\* C3: an accepted frame completes the pending request exactly when the
\* slot is non-empty, the frame id is the request's, the command is the
\* expected reply command (command + 1 when the caller gave none) and the
\* request is not yet completed; any other accepted frame completes
\* nothing and is offered to the subscribers.
C3_Correlation ==
    [][ (FeedStep /\ rx'.ok) =>
          LET match == /\ reply # 0
                       /\ req[reply].frame_id = rx'.frame_id
                       /\ rx'.command = ExpectedReply(reply)
                       /\ req[reply].received = 0
          IN  /\ match <=> (\E c \in Callers :
                               req'[c].received = req[c].received + 1)
              /\ match => /\ req'[reply].received = 1
                          /\ reply' = 0
                          /\ rx'.offered = 0
              /\ ~match => /\ reply' = reply
                           /\ \A c \in Callers :
                                 /\ req'[c].received = req[c].received
                                 /\ req'[c].reply = req[c].reply
                           /\ rx'.offered = 1
      ]_vars

\* a frame with the pending id and the command two above the expected one
\* was offered to the subscribers and left the request pending
C3_Witness ==
    /\ rx.ok
    /\ rx.offered = 1
    /\ reply # 0
    /\ req[reply].frame_id = rx.frame_id
    /\ rx.command = U16(ExpectedReply(reply) + 2)
    /\ req[reply].received = 0
    /\ req[reply].pc = "wait"

\* C4: a frame that completed the pending request invoked no subscriber
\* and caused no acknowledgment, whatever its need-ack flag.
C4_MatchedConsumed ==
    rx.matched # 0 =>
        /\ rx.offered = 0
        /\ rx.chain = <<>>
        /\ rx.acted = {}
        /\ rx.acks = <<>>
        /\ rx.pc = "idle"

C4_Witness ==
    /\ rx.matched # 0
    /\ rx.need_ack # 0
    /\ notifier_list # <<>>
    /\ req[rx.matched].received = 1

\* C5: an accepted frame with command C that completed no request causes
\* one acknowledgment (command C+1, empty body, need-ack false) when its
\* need-ack flag is set and the notifier chain returned NOTIFY_DONE, and no
\* outgoing frame otherwise.
C5_AutoAck ==
    /\ (rx.ok /\ rx.matched = 0) =>
          /\ (rx.need_ack # 0 /\ rx.chain_ret = NOTIFY_DONE) =>
                /\ Len(rx.acks) = 1
                /\ rx.acks[1].cmd = U16(rx.command + 1)
                /\ rx.acks[1].data = <<>>
                /\ rx.acks[1].need_ack = FALSE
          /\ (rx.need_ack = 0 \/ rx.chain_ret # NOTIFY_DONE) =>
                /\ rx.acks = <<>>
                /\ rx.pc = "idle"
    /\ rx.pc # "idle" => Len(rx.acks) = 1

C5_Witness ==
    /\ rx.ok
    /\ rx.matched = 0
    /\ rx.need_ack # 0
    /\ rx.chain_ret = NOTIFY_DONE
    /\ Len(rx.acks) = 1
    /\ rx.pc = "idle"
    /\ rx.ack_ret = 0
    /\ reply # 0

\* C6 as stated: a status report received while no request is pending
\* reaches only subscribers that registered for command 0x07.
C6_OnlyStatusSubscribers ==
    (rx.ok /\ rx.offered = 1 /\ rx.command = PCAT_CMD_STATUS_REPORT) =>
        \A i \in 1..Len(rx.chain) : rx.chain[i] \in {"hwmon", "client"}

\* C6 amended: an accepted frame that completed no request is offered
\* exactly once to the notifier chain, with its command as the action:
\* every registered callback is invoked, in registration order; of a
\* status report only the callbacks that select command 0x07 make use.
C6_Routing ==
    [][ (FeedStep /\ rx'.ok) =>
          /\ rx'.offered = (IF rx'.matched = 0 THEN 1 ELSE 0)
          /\ reply = 0 => rx'.offered = 1
          /\ rx'.offered = 1 =>
                /\ rx'.action = rx'.command
                /\ rx'.chain = notifier_list
                /\ rx'.command = PCAT_CMD_STATUS_REPORT =>
                      rx'.acted = {notifier_list[i] : i \in 1..Len(notifier_list)}
                                     \cap {"hwmon", "client"}
      ]_vars

C6_Witness ==
    /\ rx.ok
    /\ rx.offered = 1
    /\ rx.command = PCAT_CMD_STATUS_REPORT
    /\ reply = 0
    /\ "hwmon" \in rx.acted
    /\ \E i \in 1..Len(rx.chain) : rx.chain[i] = "poweroff"
    /\ "poweroff" \notin rx.acted

\* C7 as stated: for every command and every body shorter than
\* U16_MAX - 6, decoding the encoded frame succeeds and yields the same
\* command, body bytes and body length, and the stored CRC equals the
\* recomputed one.
C7_RoundTrip ==
    (codec.pc = "decoded" /\ codec.source = PCAT_ADDR_PMU
                          /\ Len(codec.data) < U16_MAX - 6) =>
        /\ codec.out.ok
        /\ codec.out.command = codec.cmd
        /\ codec.out.size = Len(codec.data)
        /\ codec.out.data = codec.data
        /\ codec.out.crc16 = codec.out.crc16_calc

\* C7 amended: the round trip holds for every command and every body
\* shorter than U16_MAX - 7 (length field below U16_MAX - 4); the stored
\* CRC is the one the encoder wrote and equals the recomputed one.
C7_RoundTripAccepted ==
    (codec.pc = "decoded" /\ codec.source = PCAT_ADDR_PMU
                          /\ Len(codec.data) < U16_MAX - 7) =>
        /\ codec.out.ok
        /\ codec.out.ret = 0
        /\ codec.out.command = codec.cmd
        /\ codec.out.size = Len(codec.data)
        /\ codec.out.data = codec.data
        /\ codec.out.need_ack = codec.need_ack
        /\ codec.out.crc16 = Le16(codec.bytes, Len(codec.bytes) - 2)
        /\ codec.out.crc16 = codec.out.crc16_calc

\* the longest accepted body made the round trip
C7_Witness ==
    /\ codec.pc = "decoded"
    /\ Len(codec.data) = U16_MAX - 8
    /\ codec.out.ok
    /\ codec.out.size = U16_MAX - 8
    /\ codec.out.data = codec.data

\* C8: a complete, address-accepted frame whose stored CRC differs from
\* the recomputed one is rejected with -EBADMSG (never -EAGAIN); it
\* completes no request, reaches no subscriber, causes no acknowledgment,
\* and the buffer is dropped.
C8_CrcRejected ==
    [][ (FeedStep /\ rx'.tag = "crc") =>
          /\ rx'.ret = -EBADMSG
          /\ ~rx'.ok
          /\ rx'.matched = 0
          /\ rx'.offered = 0
          /\ rx'.chain = <<>>
          /\ rx'.acks = <<>>
          /\ rx'.pc = "idle"
          /\ buffer' = <<>>
          /\ UNCHANGED <<req, reply, frame, notifier_list>>
      ]_vars

\* the corrupted frame arrived while the request it would have completed
\* was waiting and a subscriber was registered
C8_Witness ==
    /\ rx.tag = "crc"
    /\ rx.ret = -EBADMSG
    /\ reply = 1
    /\ req[1].frame_id = 1
    /\ req[1].want = 4
    /\ req[1].pc = "wait"
    /\ req[1].received = 0
    /\ notifier_list # <<>>

\* C9: while a valid frame is fed one byte at a time from an empty buffer
\* (the buffer holds the bytes fed so far, the line the rest), every feed
\* that leaves bytes of the frame to come returns -EAGAIN with the buffer
\* kept and nothing dispatched, and the feed of the last byte decodes the
\* frame and dispatches it.
C9_ByteByByte ==
    [][ (FeedStep /\ rx'.tag = "byte" /\ (buffer \o line) \in RxFrames) =>
          IF rx'.calls < Len(line)
          THEN /\ rx'.ret = -EAGAIN
               /\ buffer' = buffer \o SubSeq(line, 1, rx'.calls)
               /\ rx'.offered = 0
               /\ rx'.matched = 0
          ELSE /\ rx'.ok
               /\ rx'.ret = 0
               /\ rx'.offered = 1
               /\ rx'.action = rx'.command
               /\ buffer' = <<>>
      ]_vars

\* C11: after a feed the buffer is kept, its length the previous length
\* plus the bytes appended, exactly when the decoder returned -EAGAIN;
\* after every other outcome (frame dispatched, malformed, address not
\* accepted) the buffered length is 0.
C11_BufferLifecycle ==
    (rx.pc = "idle" /\ rx.calls > 0) =>
        /\ (rx.ret = -EAGAIN) <=> (Len(buffer) = rx.prev_len + rx.processed)
        /\ (rx.ret # -EAGAIN) <=> (Len(buffer) = 0)

\* a malformed frame completed by a second feed dropped the bytes kept
\* from the first
C11_Witness ==
    /\ rx.pc = "idle"
    /\ rx.ret = -EBADMSG
    /\ rx.prev_len > 0
    /\ rx.processed > 0
    /\ buffer = <<>>

\* C12: the head, body and foot of every outgoing frame reach the transport
\* as one unit: while a frame is open on the transport (its head written,
\* its foot not yet, its writer still writing) no write of another writer
\* reaches the transport, whoever the writers are.
C12_WriteAtomic ==
    [][ (wire.owner # Nobody /\ wire'.owner # Nobody) =>
           wire'.owner = wire.owner ]_vars

\* C13: whatever was received, continued input brings the reassembly
\* buffer back to empty: a buffer that holds bytes is eventually empty
\* again, so that the frames sent afterwards are decoded; the buffer never
\* stays full with every later feed answered with -EAGAIN.
C13_LinkRecovers == (buffer # <<>>) ~> (buffer = <<>>)

\* C14: a failed transport write ends the call with the error of that
\* write and no further write; a timeout after the last retry ends it with
\* -ETIMEDOUT; on both ways the slot is empty when execute returns, and
\* execute returns nothing but 0, the write error or -ETIMEDOUT.
C14_FailureOutcomes ==
    [][ \A c \in Callers :
          /\ (req[c].pc \in {"w_head", "w_body", "w_foot"}
                 /\ req'[c].pc = "fail") =>
                /\ req'[c].ret = -EIO
                /\ req'[c].nwrites = req[c].nwrites
          /\ (req[c].pc = "wait" /\ req'[c].pc = "fail") =>
                /\ req'[c].ret = -ETIMEDOUT
                /\ req[c].retries = MAX_RETRIES
                /\ req[c].received = 0
          /\ req[c].pc \in {"fail", "fail_clear"} =>
                /\ req'[c].pc \in {"fail", "fail_clear", "done"}
                /\ req'[c].nwrites = req[c].nwrites
                /\ req'[c].sent = req[c].sent
                /\ req'[c].ret = req[c].ret
          /\ (req[c].pc # "done" /\ req'[c].pc = "done") =>
                /\ req'[c].ret \in {0, -EIO, -ETIMEDOUT}
                /\ req'[c].ret # 0 => (req[c].pc = "fail_clear" /\ reply' = 0)
                /\ req'[c].ret = 0 => req[c].pc = "wait"
      ]_vars

\* a call whose write failed on a retry has returned the write error with
\* the slot empty
C14_Witness ==
    \E c \in Callers :
        /\ req[c].pc = "done"
        /\ req[c].ret = -EIO
        /\ req[c].retries > 0
        /\ req[c].nwrites = req[c].retries
        /\ reply = 0

C10_BufferBound ==
    /\ Len(buffer) <= BUFFER_SIZE
    /\ rx.new_len <= BUFFER_SIZE
    /\ rx.new_len = rx.prev_len + rx.processed
    /\ rx.processed = (IF rx.size < BUFFER_SIZE - rx.prev_len
                       THEN rx.size ELSE BUFFER_SIZE - rx.prev_len)

\* a feed into a partly filled buffer was cut at the capacity
C10_Witness ==
    /\ rx.prev_len > 0
    /\ rx.processed > 0
    /\ rx.size > rx.processed
    /\ Len(buffer) = BUFFER_SIZE

\* a heartbeat with an empty body and need-ack false, from src to dst, has
\* been encoded and handed to the decoder
HeartbeatDecoded(src, dst) ==
    /\ codec.pc = "decoded"
    /\ codec.source = src
    /\ codec.dest = dst
    /\ codec.cmd = PCAT_CMD_HEARTBEAT
    /\ codec.data = <<>>
    /\ codec.need_ack = 0

\* the 13 bytes of that frame with the given length field
HeartbeatBytes(src, dst, length) ==
    << PCAT_MAGIC_HEAD, src, dst, Lo(codec.frame_id), Hi(codec.frame_id),
       length, 0, PCAT_CMD_HEARTBEAT, 0, 0,
       Lo(crc16(U16_MAX, codec.bytes, 1, HEAD_SIZE)),
       Hi(crc16(U16_MAX, codec.bytes, 1, HEAD_SIZE)), PCAT_MAGIC_END >>

\* C16 as stated: the heartbeat the host encodes is A5 01 81 id 02 00 01 00
\* 00 crc 5A with a length field of 2, and decoding those bytes yields
\* command 0x01, an empty body and need_ack false.
C16_HeartbeatWire ==
    HeartbeatDecoded(PCAT_ADDR_CPU, PCAT_ADDR_PMU) =>
        /\ codec.bytes = HeartbeatBytes(PCAT_ADDR_CPU, PCAT_ADDR_PMU,
                                        FOOT_SIZE - 2)
        /\ codec.out.ok
        /\ codec.out.command = PCAT_CMD_HEARTBEAT
        /\ codec.out.size = 0
        /\ codec.out.need_ack = 0

\* C16 amended: the heartbeat the host encodes is A5 01 81 id 03 00 01 00
\* 00 crc 5A, its length field 3 = body length + sizeof(foot) - 1 and its
\* CRC taken over bytes 1 to 9; the driver's decoder ignores these bytes
\* with result 0, their source not being the PMU; the same frame from the
\* PMU to the host, A5 81 01 id 03 00 01 00 00 crc 5A, decodes to command
\* 0x01, an empty body and need_ack false.
C16_HeartbeatWireLength ==
    /\ HeartbeatDecoded(PCAT_ADDR_CPU, PCAT_ADDR_PMU) =>
          /\ codec.bytes = HeartbeatBytes(PCAT_ADDR_CPU, PCAT_ADDR_PMU,
                                          FOOT_SIZE - 1)
          /\ codec.bytes = raw_write_bytes(codec.frame_id, codec.cmd, FALSE,
                                           codec.data)
          /\ codec.out = NoFrame(0)
    /\ HeartbeatDecoded(PCAT_ADDR_PMU, PCAT_ADDR_CPU) =>
          /\ codec.bytes = HeartbeatBytes(PCAT_ADDR_PMU, PCAT_ADDR_CPU,
                                          FOOT_SIZE - 1)
          /\ codec.out.ok
          /\ codec.out.ret = 0
          /\ codec.out.command = PCAT_CMD_HEARTBEAT
          /\ codec.out.size = 0
          /\ codec.out.data = <<>>
          /\ codec.out.need_ack = 0

\* the host's heartbeat with frame id 258 went through encoder and decoder
C16_Witness ==
    /\ HeartbeatDecoded(PCAT_ADDR_CPU, PCAT_ADDR_PMU)
    /\ codec.frame_id = 258
    /\ Len(codec.bytes) = HEAD_SIZE + FOOT_SIZE
    /\ Le16(codec.bytes, 6) = FOOT_SIZE - 1

\* C17: when pcat_pmu_read_string has returned, for every buffer size len
\* and every payload size, the memory written from the start of the buffer
\* is at most len bytes, at most len - 1 of them copied from the payload,
\* the buffer ends in a NUL, and it is all zero when execute failed with
\* no reply received.
C17_BoundedString ==
    \A c \in Callers :
        req[c].pc = "returned" =>
            /\ Len(req[c].str) <= req[c].len
            /\ req[c].copied <= req[c].len
            /\ req[c].len > 0 =>
                  /\ req[c].copied <= req[c].len - 1
                  /\ req[c].str[req[c].len] = 0
            /\ (req[c].ret # 0 /\ req[c].reply.head = <<>>) =>
                  \A i \in 1..Len(req[c].str) : req[c].str[i] = 0

\* C18: while a frame whose source is not the PMU or whose destination is
\* not the host, the host broadcast or all is fed from an empty buffer, no
\* feed completes a request, reaches a subscriber, causes an
\* acknowledgment or changes the slot, and the decoder returns 0 as soon as
\* it has the head (before that, -EAGAIN), never an error.
C18_AddressFilter ==
    [][ (FeedStep /\ (buffer \o line) \in AddrFrames) =>
          /\ ~rx'.ok
          /\ rx'.matched = 0
          /\ rx'.offered = 0
          /\ rx'.chain = <<>>
          /\ rx'.acks = <<>>
          /\ rx'.pc = "idle"
          /\ UNCHANGED <<req, reply, wire>>
          /\ rx'.ret = (IF rx'.new_len < HEAD_SIZE THEN -EAGAIN ELSE 0)
      ]_vars

\* a whole frame with addresses the driver does not accept was dropped
\* with result 0 while the request with its frame id waited and a
\* subscriber was registered
C18_Witness ==
    /\ rx.pc = "idle"
    /\ rx.ret = 0
    /\ ~rx.ok
    /\ rx.new_len = Len(LinkReply)
    /\ buffer = <<>>
    /\ line = <<>>
    /\ reply = 1
    /\ req[1].pc = "wait"
    /\ req[1].frame_id = 1
    /\ req[1].want = 4
    /\ req[1].received = 0
    /\ notifier_list # <<>>

\* C19: while a malformed frame (wrong head magic, wrong end magic, length
\* out of range, wrong CRC) is fed from an empty buffer, no feed changes
\* the slot, the pending request, its reply or its completion, nothing is
\* dispatched, and the feed that supplies the last byte is answered with
\* -EBADMSG.
C19_MalformedNotSurfaced ==
    [][ (FeedStep /\ (buffer \o line) \in BadFrames) =>
          /\ ~rx'.ok
          /\ rx'.ret \in {-EAGAIN, -EBADMSG}
          /\ line' = <<>> => rx'.ret = -EBADMSG
          /\ rx'.matched = 0
          /\ rx'.offered = 0
          /\ rx'.acks = <<>>
          /\ rx'.pc = "idle"
          /\ UNCHANGED <<req, reply, wire>>
      ]_vars

\* a malformed frame was rejected while the request it would have
\* completed was waiting
C19_Witness ==
    /\ rx.pc = "idle"
    /\ rx.ret = -EBADMSG
    /\ rx.new_len = Len(LinkReply)
    /\ line = <<>>
    /\ reply = 1
    /\ req[1].pc = "wait"
    /\ req[1].frame_id = 1
    /\ req[1].want = 4
    /\ req[1].received = 0
    /\ req[1].reply = ZeroReply

\* the request of caller c has been completed: the receive path copied a
\* frame into its reply and signalled the completion
Completed(c) == req[c].reply.head # <<>>

\* C20: an accepted frame with the frame id and the expected reply command
\* of a request that has been completed already completes nothing: the
\* completion is not signalled again, the reply copied for the request and
\* the result of its call stay as they are.  The request engine ignores
\* it; like every frame that completes no request it goes on to the
\* subscribers.
C20_DuplicateIgnored ==
    [][ \A c \in Callers :
          (/\ FeedStep
           /\ rx'.ok
           /\ Completed(c)
           /\ rx'.frame_id = req[c].frame_id
           /\ rx'.command = ExpectedReply(c)) =>
              /\ req'[c] = req[c]
              /\ rx'.matched = 0
              /\ rx'.offered = 1
              /\ reply' = reply
      ]_vars

\* the reply arrived a second time after the call had returned 0
C20_Witness ==
    /\ rx.ok
    /\ rx.matched = 0
    /\ rx.offered = 1
    /\ req[1].pc = "done"
    /\ req[1].ret = 0
    /\ Completed(1)
    /\ rx.frame_id = req[1].frame_id
    /\ rx.command = ExpectedReply(1)
    /\ req[1].reply.size = 1

\* C21: whenever pcat_pmu_execute has returned 0, the reply of the request
\* holds the 9-byte head and the 4-byte foot of a frame with the frame id
\* of the request and the expected reply command, and a payload whose
\* length is the body length the head announces and whose bytes are the
\* body of that frame (empty for an empty body).
C21_ReplyDelivered ==
    \A c \in Callers :
        (req[c].pc = "done" /\ req[c].ret = 0) =>
            /\ Len(req[c].reply.head) = HEAD_SIZE
            /\ Len(req[c].reply.foot) = FOOT_SIZE
            /\ Le16(req[c].reply.head, 4) = req[c].frame_id
            /\ Le16(req[c].reply.head, 8) = ExpectedReply(c)
            /\ req[c].reply.size = Le16(req[c].reply.head, 6) + 1 - FOOT_SIZE
            /\ req[c].reply.data = Body(req[c].reply.size)
            /\ Len(req[c].reply.data) =
                   Le16(req[c].reply.head, 6) + 1 - FOOT_SIZE

\* C22: with several callers, a reply frame completes only the request the
\* slot holds, and every call that is still waiting (installed, not yet
\* completed, timed out for the last time or failed) when an accepted frame
\* with its frame id and its expected reply command is fed is completed by
\* that frame.
C22_WaitingCallCompleted ==
    [][ \A c \in Callers :
          /\ (FeedStep /\ req'[c].received > req[c].received) => reply = c
          /\ (/\ FeedStep
              /\ rx'.ok
              /\ Unresolved(c)
              /\ rx'.frame_id = req[c].frame_id
              /\ rx'.command = ExpectedReply(c)) =>
                 /\ req'[c].received = 1
                 /\ Completed(c)'
      ]_vars

\* the frame ids taken from the counter that the state still knows: those
\* of the execute calls that passed no frame id and of the last send
CounterIds ==
    { req[c].frame_id :
        c \in { d \in Callers : /\ req[d].arg_id = 0
                                /\ req[d].pc \notin {"idle", "lock",
                                                     "install"} } }
    \cup (IF snd.pc = "idle" THEN {} ELSE {snd.frame_id})

\* C23: pcat_pmu_execute uses a non-zero frame id of the caller unchanged
\* and leaves the counter alone, and otherwise takes the next value of the
\* counter; pcat_pmu_send always takes the next value.  Each taking
\* advances the counter by one, the id is the counter modulo 2^16 and
\* differs from the ids taken before it, and a call keeps its id through
\* all its retries.
C23_FrameIds ==
    [][ /\ \A c \in Callers :
             (req[c].pc = "install" /\ req'[c].pc = "want") =>
                IF req[c].arg_id # 0
                THEN /\ req'[c].frame_id = req[c].arg_id
                     /\ frame' = frame
                ELSE /\ frame' = frame + 1
                     /\ req'[c].frame_id = frame' % U16_MOD
                     /\ req'[c].frame_id \notin CounterIds
        /\ (snd' # snd /\ snd'.pc = "w_head") =>
              /\ frame' = frame + 1
              /\ snd'.frame_id = frame' % U16_MOD
              /\ snd'.frame_id \notin CounterIds
        /\ \A c \in Callers :
             req[c].pc \notin {"idle", "lock", "install"} =>
                /\ req'[c].frame_id = req[c].frame_id
                /\ \A w \in req'[c].sent : w[1] = req[c].frame_id
        /\ frame' # frame =>
              \/ snd' # snd
              \/ \E c \in Callers : req[c].pc = "install" /\ req[c].arg_id = 0
      ]_vars

\* the ids wrapped: a send took 65535, an execute call took 0 from the
\* counter and has written its frame a second time with it, and the other
\* execute call uses the id 258 its caller passed
C23_Witness ==
    /\ frame = U16_MAX + 1
    /\ snd.pc = "done"
    /\ snd.frame_id = U16_MAX
    /\ req[1].arg_id = 0
    /\ req[1].frame_id = 0
    /\ req[1].pc = "wait"
    /\ req[1].retries = 1
    /\ req[1].nwrites = 2
    /\ req[2].arg_id = 258
    /\ req[2].frame_id = 258
    /\ req[2].pc = "wait"

\* the length field of the head in the bytes b
RawLength(b) == Le16(b, 6)

\* the bytes b hold the whole frame their head announces, with the end
\* magic and the CRC of its head and body in its foot
RawWhole(b) ==
    /\ Len(b) >= HEAD_SIZE + RawLength(b) + 1
    /\ b[HEAD_SIZE + RawLength(b) + 1] = PCAT_MAGIC_END
    /\ Le16(b, HEAD_SIZE + RawLength(b) - 1) =
          crc16(U16_MAX, b, 1, RawLength(b) + 6)

C25_OldestDropped ==
    (/\ rx.calls > 0
     /\ rx.prev_len > 0
     /\ rx.size <= BUFFER_SIZE
     /\ rx.prev_len + rx.size > BUFFER_SIZE) =>
        /\ rx.processed = rx.size
        /\ rx.new_len - rx.processed < rx.prev_len

\* what a thread sees in the slot when it takes reply_lock: no request, or
\* a request that has not been completed and whose reply is untouched
SlotView ==
    reply_lock = 0 =>
        \/ reply = 0
        \/ /\ req[reply].received = 0
           /\ req[reply].reply = ZeroReply

\* C26: the reply is copied, the completion signalled and the slot cleared
\* in one critical section of reply_lock: a step that signals the
\* completion of a call finds its request in the slot, not completed and
\* with an untouched reply, and leaves the reply copied and the slot empty,
\* so whoever takes the lock sees the slot empty or holding a request that
\* is not completed and whose reply is untouched, and no call is signalled
\* twice.
C26_MatchAtomic ==
    [][ /\ \A c \in Callers :
             req'[c].received > req[c].received =>
                /\ reply = c
                /\ reply_lock = 0
                /\ req[c].received = 0
                /\ req[c].reply = ZeroReply
                /\ req'[c].received = 1
                /\ Completed(c)'
                /\ reply' = 0
                /\ reply_lock' = 0
        /\ \A c \in Callers :
             (Completed(c) /\ req'[c].pc = req[c].pc) =>
                /\ req'[c].received <= req[c].received
                /\ req'[c].reply = req[c].reply
        /\ SlotView'
      ]_vars

\* a reply completed the request of caller 1, which has not yet woken up,
\* while caller 2 is about to take the lock to install its request
C26_Witness ==
    /\ rx.matched = 1
    /\ reply = 0
    /\ reply_lock = 0
    /\ req[1].pc = "wait"
    /\ req[1].received = 1
    /\ Completed(1)
    /\ req[2].pc = "lock"

\* C27: whenever reply_lock is free the slot is empty or holds the request
\* of a call of pcat_pmu_execute that has installed it and has not
\* returned: no path out of the call leaves its request in the slot.
C27_NoDanglingRequest ==
    reply_lock = 0 =>
        \/ reply = 0
        \/ req[reply].pc \in {"want", "spin", "w_head", "w_body", "w_foot",
                              "wait", "fail"}

\* one call has returned with a timeout and the other with its reply, one
\* after the other through the same slot, and the slot is empty
C27_Witness ==
    /\ reply_lock = 0
    /\ reply = 0
    /\ req[1].pc = "done"
    /\ req[1].ret = -ETIMEDOUT
    /\ req[2].pc = "done"
    /\ req[2].ret = 0
    /\ Completed(2)

\* C28: a call of pcat_pmu_execute that has returned -ETIMEDOUT was not
\* completed by the receive path: its completion was not signalled and its
\* reply is as the call zeroed it.
C28_TimeoutExcludesCompletion ==
    \A c \in Callers :
        (req[c].pc \in {"fail", "fail_clear", "done"}
           /\ req[c].ret = -ETIMEDOUT) =>
            /\ req[c].received = 0
            /\ req[c].reply = ZeroReply

\* C29: the failure path of a call of pcat_pmu_execute clears the slot only
\* when the slot holds the request of that call: when it holds the request
\* of another call, the step from the label fail to the return leaves the
\* slot as it is.
C29_OwnerOnlyClear ==
    [][ \A c \in Callers :
          (/\ req[c].pc = "fail_clear"
           /\ req'[c].pc = "done"
           /\ reply # c) => reply' = reply
      ]_vars

\* the frames of the link the driver drops: those with addresses it does
\* not accept and the malformed ones
DroppedFrames == AddrFrames \cup BadFrames

\* the bytes t are what is left of the frame m after some of its bytes
\* were fed
IsRest(t, m) ==
    \E k \in 0..(Len(m) - 1) : t = SubSeq(m, k + 1, Len(m))

\* C30: the feed that hands over the last bytes of a frame the driver drops
\* (foreign addresses or malformed), however the frame was cut into feeds,
\* leaves the buffer empty, so that a valid frame fed in one piece right
\* after it is decoded.  (The last bytes of a valid frame can be those of
\* a malformed one; the feed of the former decodes a frame.)
C30_DroppedFrameCostsNothing ==
    [][ /\ (/\ FeedStep
            /\ line # <<>>
            /\ line' = <<>>
            /\ ~rx'.ok
            /\ \E m \in DroppedFrames : IsRest(line, m)) =>
               buffer' = <<>>
        /\ (/\ FeedStep
            /\ line \in LinkFrames \ DroppedFrames
            /\ line' = <<>>) => rx'.ok
      ]_vars

\* the bytes d start with the whole frame m and go on after it
FrameAndMore(d, m) ==
    /\ Len(d) > Len(m)
    /\ SubSeq(d, 1, Len(m)) = m

\* C31: when the bytes buffered and fed hold a complete valid frame
\* followed by further bytes, the feed decodes that first frame and no
\* other: it is dispatched once (to the pending request or to the
\* subscribers), at most one acknowledgment is written, and the buffer,
\* with the bytes after the frame, is emptied by the feed (once the
\* acknowledgment is written, when there is one); the bytes consumed are
\* not fed again.
C31_OneFramePerFeed ==
    [][ \A m \in BurstFrames :
          (/\ FeedStep
           /\ rx' # rx
           /\ FrameAndMore(buffer \o SubSeq(line, 1, rx'.processed), m)) =>
              /\ rx'.ok
              /\ rx'.ret = 0
              /\ rx'.frame_id = Le16(m, 4)
              /\ rx'.command = Le16(m, 8)
              /\ (IF rx'.matched # 0 THEN 1 ELSE 0) + rx'.offered = 1
              /\ Len(rx'.acks) <= 1
              /\ rx'.acks # <<>> => rx'.acks[1].frame_id = Le16(m, 4)
              /\ rx'.pc = "idle" => buffer' = <<>>
              /\ rx'.processed = rx'.size
              /\ line' = SubSeq(line, rx'.size + 1, Len(line))
      ]_vars

\* the reply to the waiting request and a second frame of 14 bytes behind
\* it came in one feed: the reply completed the request, and the second
\* frame went with the buffer without reaching the subscriber
C31_Witness ==
    /\ rx.pc = "idle"
    /\ rx.ok
    /\ rx.size = 2 * Len(LinkReply)
    /\ rx.new_len = 2 * Len(LinkReply)
    /\ rx.command = 4
    /\ rx.matched = 1
    /\ rx.offered = 0
    /\ rx.acted = {}
    /\ buffer = <<>>
    /\ line = <<>>
    /\ notifier_list # <<>>
    /\ Completed(1)

\* the bytes pcat_pmu_raw_write sends for the acknowledgment a
AckBytes(a) == raw_write_bytes(a.frame_id, a.cmd, a.need_ack, a.data)

\* C32: the acknowledgment carries the frame id of the frame it answers
\* and goes from the host (0x01) to the PMU (0x81); the feed that causes
\* it and the writing of it leave the frame counter, the slot and the
\* requests alone; and when its write fails the feed still has the result
\* 0 of the frame and the buffer is emptied.
C32_AckEchoesFrame ==
    [][ /\ (FeedStep /\ rx'.acks # <<>>) =>
              /\ Len(rx'.acks) = 1
              /\ rx'.acks[1].frame_id = rx'.frame_id
              /\ Le16(AckBytes(rx'.acks[1]), 4) = rx'.frame_id
              /\ AckBytes(rx'.acks[1])[2] = PCAT_ADDR_CPU
              /\ AckBytes(rx'.acks[1])[3] = PCAT_ADDR_PMU
              /\ AckBytes(rx'.acks[1])[2] = 1
              /\ AckBytes(rx'.acks[1])[3] = 129
              /\ frame' = frame
              /\ reply' = reply
              /\ \A c \in Callers : req'[c].received = req[c].received
                                     /\ req'[c].reply = req[c].reply
        /\ (rx.pc \in {"ack_head", "ack_body", "ack_foot"} /\ rx' # rx) =>
              /\ frame' = frame
              /\ reply' = reply
              /\ req' = req
              /\ rx'.acks = rx.acks
              /\ rx'.ret = 0
              /\ rx'.pc = "idle" => buffer' = <<>>
              /\ rx'.ack_ret < 0 => (rx'.pc = "idle" /\ buffer' = <<>>)
      ]_vars

\* the write of the acknowledgment of the frame with id 2 failed while the
\* request with id 1 waited in the slot: the feed has its result 0, the
\* buffer is empty and the slot and the counter are as they were
C32_Witness ==
    /\ rx.pc = "idle"
    /\ rx.ok
    /\ rx.ret = 0
    /\ rx.ack_ret = -EIO
    /\ Len(rx.acks) = 1
    /\ rx.frame_id = 2
    /\ rx.acks[1].frame_id = 2
    /\ buffer = <<>>
    /\ reply = 1
    /\ frame = 1
    /\ req[1].pc = "wait"
    /\ req[1].frame_id = 1

\* C33: with the callbacks of hwmon, rtc, supply and poweroff registered in
\* any number and order, the chain returns NOTIFY_DONE for every accepted
\* frame that completes no request, also for the commands a callback acts
\* on; such a frame is answered by exactly one acknowledgment with its
\* frame id and command + 1 when its need-ack flag is set and by none
\* otherwise; and a shutdown request (0x0D) offered while poweroff is
\* registered makes poweroff act and, with need-ack set, is acknowledged
\* with command 0x0E.
C33_InTreeNeverHandled ==
    (rx.ok /\ rx.matched = 0) =>
        /\ rx.offered = 1
        /\ \A i \in 1..Len(rx.chain) :
              /\ rx.chain[i] \in InTree
              /\ notifier_call(rx.chain[i], rx.command, NOTIFY_OK)
                    = NOTIFY_DONE
        /\ rx.acted = { rx.chain[i] :
                          i \in { j \in 1..Len(rx.chain) :
                                    notifier_acts(rx.chain[j], rx.command) } }
        /\ rx.chain_ret = NOTIFY_DONE
        /\ rx.need_ack # 0 =>
              /\ Len(rx.acks) = 1
              /\ rx.acks[1].frame_id = rx.frame_id
              /\ rx.acks[1].cmd = rx.command + 1
        /\ rx.need_ack = 0 => rx.acks = <<>>
        /\ (/\ rx.command = 13
            /\ \E i \in 1..Len(rx.chain) : rx.chain[i] = "poweroff") =>
              /\ "poweroff" \in rx.acted
              /\ rx.need_ack # 0 => rx.acks[1].cmd = 14

\* with all four callbacks registered and a request waiting for another
\* command, a shutdown request with need-ack reached poweroff alone and
\* its acknowledgment with command 0x0E has been written
C33_Witness ==
    /\ rx.pc = "idle"
    /\ rx.ok
    /\ rx.matched = 0
    /\ rx.command = PCAT_CMD_PMU_REQUEST_SHUTDOWN
    /\ rx.need_ack # 0
    /\ Len(rx.chain) = 4
    /\ rx.acted = {"poweroff"}
    /\ rx.chain_ret = NOTIFY_DONE
    /\ Len(rx.acks) = 1
    /\ rx.acks[1].cmd = 14
    /\ rx.ack_ret = 0
    /\ reply = 1
    /\ req[1].pc = "wait"

====
